---------------------------- MODULE Spec2Model ----------------------------
(***************************************************************************)
(* A model of the GORM tag validation engine of gorm-tool:                 *)
(*   server/src/parser.ts  parseGoStructs, parseFields, parseGormTag,      *)
(*                         validateGormTags, checkQuoteClosure,            *)
(*                         validateTagValue, validateTagCombinations,      *)
(*                         isValidGormKey, findFieldRange                  *)
(*   server/src/server.ts  the diagnostics request handler, validateGoFile *)
(* Strings are TLA+ strings; a character is a string of length one.        *)
(* Operators that model a JavaScript string method keep its 0-based        *)
(* indices; the regular-expression matchers use 1-based positions.         *)
(***************************************************************************)
EXTENDS Integers, Sequences, FiniteSets, TLC

(***************************************************************************)
(* JavaScript string primitives                                            *)
(***************************************************************************)
Ch(s, i) == SubSeq(s, i, i)

\* the backquote that delimits a Go raw string literal (the lexer of TLA+ pairs
\* a backquote with the next single quote, so it is written as such a pair)
Backtick == SubSeq("`'", 1, 1)

UpperLetters == "ABCDEFGHIJKLMNOPQRSTUVWXYZ"
LowerLetters == "abcdefghijklmnopqrstuvwxyz"
Digits == "0123456789"

CharsOf(s) == {Ch(s, i) : i \in 1..Len(s)}

UpperSet == CharsOf(UpperLetters)
DigitSet == CharsOf(Digits)
\* \w of a regular expression without the u flag
WordSet == CharsOf(UpperLetters) \cup CharsOf(LowerLetters) \cup CharsOf(Digits) \cup {"_"}
\* \s of a regular expression, and what trim() strips (the ASCII part)
SpaceSet == {" ", "\t", "\n", "\r", "\f"}
\* [\w[\]*.] : the characters of a field type
TypeSet == WordSet \cup {"[", "]", "*", "."}

\* Math.max, Math.min
Max(a, b) == IF a >= b THEN a ELSE b
Min(a, b) == IF a <= b THEN a ELSE b

\* the least and the greatest element of a set of integers; none when the
\* set is empty (the loops over the characters of a string are written with
\* them)
MinOf(S, none) == IF S = {} THEN none ELSE CHOOSE x \in S : \A y \in S : x <= y
MaxOf(S, none) == IF S = {} THEN none ELSE CHOOSE x \in S : \A y \in S : x >= y

\* s.indexOf(sub, from): 0-based index of the first occurrence, or -1
IndexOfFrom(s, sub, from) ==
  MinOf({i \in from..(Len(s) - Len(sub)) : SubSeq(s, i + 1, i + Len(sub)) = sub}, -1)

IndexOf(s, sub) == IndexOfFrom(s, sub, 0)

Includes(s, sub) == IndexOf(s, sub) >= 0

StartsWith(s, prefix) ==
  Len(prefix) <= Len(s) /\ SubSeq(s, 1, Len(prefix)) = prefix

\* s.substring(from) and s.substring(from, to), 0-based, to exclusive
SubstringFrom(s, from) == SubSeq(s, from + 1, Len(s))
Substring(s, from, to) == SubSeq(s, from + 1, to)

LowerChar(c) ==
  IF c \in UpperSet THEN Ch(LowerLetters, IndexOf(UpperLetters, c) + 1) ELSE c

\* mutant of ToLowerCase: the letters are left as they are
ToLowerCaseAsWritten(s) == s

RECURSIVE ToLowerCase(_)
ToLowerCase(s) ==
  IF s = "" THEN "" ELSE LowerChar(Ch(s, 1)) \o ToLowerCase(SubSeq(s, 2, Len(s)))

\* the part of s from the first to the last of the positions
Between(s, positions) == SubSeq(s, MinOf(positions, 1), MaxOf(positions, 0))

\* s.trim()
Trim(s) == Between(s, {i \in 1..Len(s) : Ch(s, i) \notin SpaceSet})

RECURSIVE SplitFrom(_, _, _)
\* s split at the 0-based index i of its first separator (-1: it has none)
SplitAt(s, sep, acc, i) ==
  IF i < 0 THEN Append(acc, s)
  ELSE SplitFrom(SubstringFrom(s, i + 1), sep, Append(acc, Substring(s, 0, i)))

SplitFrom(s, sep, acc) == SplitAt(s, sep, acc, IndexOf(s, sep))

\* s.split(sep) for a one-character separator
Split(s, sep) == SplitFrom(s, sep, <<>>)

RECURSIVE Join(_, _)
\* parts.join(sep)
Join(parts, sep) ==
  IF parts = <<>> THEN ""
  ELSE IF Len(parts) = 1 THEN parts[1]
  ELSE parts[1] \o sep \o Join(Tail(parts), sep)

\* /^\d+$/.test(s)
IsDigits(s) == s # "" /\ \A i \in 1..Len(s) : Ch(s, i) \in DigitSet

\* the first 1-based position >= p of s whose character is not in class
\* (Len(s) + 1 when there is none): a greedy class* of a regular expression
SpanWhile(s, p, class) ==
  MinOf({q \in p..Len(s) : Ch(s, q) \notin class}, Max(p, Len(s) + 1))

\* the same for a negated class [^...]*
SpanUntil(s, p, stops) ==
  MinOf({q \in p..Len(s) : Ch(s, q) \in stops}, Max(p, Len(s) + 1))

\* the literal lit occurs in s at 1-based position p
LitAt(s, p, lit) ==
  p + Len(lit) - 1 <= Len(s) /\ SubSeq(s, p, p + Len(lit) - 1) = lit

(***************************************************************************)
(* parser.ts: parseGormTag                                                 *)
(***************************************************************************)
\* the capture between the opening quote at the 0-based index i + 5 and the
\* quote that closes it at index close; <<>> when either is missing
GormQuotedCapture(tags, i, close) ==
  IF i < 0 \/ close < 0 THEN <<>> ELSE <<Substring(tags, i + 6, close)>>

\* the first gorm segment that opens with the quote, at the 0-based index i
GormQuotedAt(tags, quote, i) ==
  GormQuotedCapture(tags, i, IF i < 0 THEN -1 ELSE IndexOfFrom(tags, quote, i + 6))

\* /gorm:"([^"]*)"/ and /gorm:'([^']*)'/ : the capture of the leftmost match,
\* as <<capture>>; <<>> when there is none (when the quote of the first
\* segment does not close, that of no later segment does)
MatchGormQuoted(tags, quote) == GormQuotedAt(tags, quote, IndexOf(tags, "gorm:" \o quote))

RECURSIVE MatchGormBare(_, _)
\* the capture that starts at the 1-based position start and ends before stop
GormBareCapture(tags, i, start, stop) ==
  IF stop = start THEN MatchGormBare(tags, i + 1) ELSE <<SubSeq(tags, start, stop - 1)>>

\* the gorm segment at the 0-based index i
GormBareAt(tags, i) ==
  IF i < 0 THEN <<>>
  ELSE GormBareCapture(tags, i, i + 6, SpanUntil(tags, i + 6, SpaceSet \cup {";", Backtick}))

\* /gorm:([^\s;BACKTICK]+)/ from the 0-based index from
MatchGormBare(tags, from) == GormBareAt(tags, IndexOfFrom(tags, "gorm:", from))

\* the capture of the first pattern that matches
FirstMatch(m) ==
  IF m[1] # <<>> THEN m[1][1]
  ELSE IF m[2] # <<>> THEN m[2][1]
  ELSE IF m[3] # <<>> THEN m[3][1]
  ELSE ""

\* mutant of parseGormTag: a literal without gorm segment is returned whole
parseGormTagOrLiteral(tags) ==
  IF Trim(tags) = "" THEN ""
  ELSE FirstMatch(<<MatchGormQuoted(tags, "\""), <<>>, <<tags>>>>)

\* the three gormPatterns, in the order they are tried
GormPatternMatches(tags) ==
  << MatchGormQuoted(tags, "\""), MatchGormQuoted(tags, "'"), MatchGormBare(tags, 0) >>

parseGormTag(tags) ==
  IF Trim(tags) = "" THEN "" ELSE FirstMatch(GormPatternMatches(tags))

(***************************************************************************)
(* parser.ts: parseFields                                                  *)
(***************************************************************************)
RECURSIVE Spans(_, _, _)
\* the positions a sequence of greedy classes reaches one after the other,
\* from the last position of ps on: ps with one position more for each class
Spans(s, ps, classes) ==
  IF classes = <<>> THEN ps
  ELSE Spans(s, Append(ps, SpanWhile(s, ps[Len(ps)], Head(classes))), Tail(classes))

\* ^\s*(\w+)\s+([\w[\]*.]+)\s* : the positions 1, and after each of the five
\* classes
FieldSpans(line) == Spans(line, <<1>>, <<SpaceSet, WordSet, SpaceSet, TypeSet, SpaceSet>>)

\* the name and the type are not empty and a space separates them
IsFieldHead(p) == p[3] > p[2] /\ p[4] > p[3] /\ p[5] > p[4]

\* the captures of fieldWithTagsRegex, the literal opening at p[6] and
\* closing at close
FieldWithTags(line, p, close) ==
  IF IsFieldHead(p) /\ LitAt(line, p[6], Backtick) /\ close <= Len(line)
    THEN <<SubSeq(line, p[2], p[3] - 1), SubSeq(line, p[4], p[5] - 1),
           SubSeq(line, p[6] + 1, close - 1)>>
    ELSE <<>>

FieldWithTagsAt(line, p) == FieldWithTags(line, p, SpanUntil(line, p[6] + 1, {Backtick}))

\* /^\s*(\w+)\s+([\w[\]*.]+)\s*BACKTICK([^BACKTICK]*)BACKTICK/ :
\* <<name, type, tags>> or <<>>
fieldWithTagsRegex(line) == FieldWithTagsAt(line, FieldSpans(line))

FieldWithoutTagsAt(line, p) ==
  IF IsFieldHead(p) /\ p[6] = Len(line) + 1
    THEN <<SubSeq(line, p[2], p[3] - 1), SubSeq(line, p[4], p[5] - 1)>>
    ELSE <<>>

\* /^\s*(\w+)\s+([\w[\]*.]+)\s*$/ : <<name, type>> or <<>>
fieldWithoutTagsRegex(line) == FieldWithoutTagsAt(line, FieldSpans(line))

\* fields.push for the match of one of the two expressions
PushField(fields, withTags, withoutTags) ==
  IF withTags # <<>>
    THEN Append(fields, [name |-> withTags[1], type |-> withTags[2],
                         gormTag |-> parseGormTag(withTags[3])])
  ELSE IF withoutTags # <<>>
    THEN Append(fields, [name |-> withoutTags[1], type |-> withoutTags[2],
                         gormTag |-> parseGormTag("")])
  ELSE fields

parseTrimmedLine(fields, trimmedLine) ==
  IF trimmedLine = "" \/ StartsWith(trimmedLine, "//") THEN fields
  ELSE PushField(fields, fieldWithTagsRegex(trimmedLine), fieldWithoutTagsRegex(trimmedLine))

\* the body of the loop over the lines: the fields list after one line
parseFieldLine(fields, line) == parseTrimmedLine(fields, Trim(line))

RECURSIVE parseFieldLines(_, _, _)
parseFieldLines(lines, i, fields) ==
  IF i > Len(lines) THEN fields
  ELSE parseFieldLines(lines, i + 1, parseFieldLine(fields, lines[i]))

parseFields(fieldsText) ==
  IF Trim(fieldsText) = "" THEN <<>>
  ELSE parseFieldLines(Split(fieldsText, "\n"), 1, <<>>)

(***************************************************************************)
(* parser.ts: parseGoStructs                                               *)
(***************************************************************************)
Braces == {"{", "}"}

RECURSIVE BraceGroups(_, _)
\* the group that opens at p, its first brace after that at q
BraceGroup(s, p, q) ==
  IF LitAt(s, q, "}") THEN BraceGroups(s, SpanUntil(s, q + 1, Braces)) ELSE p

\* (?:\{[^{}]*\}[^{}]*)* from position p: the position after the last group
\* that matches (a group that opens and does not close is not taken)
BraceGroups(s, p) ==
  IF ~LitAt(s, p, "{") THEN p ELSE BraceGroup(s, p, SpanUntil(s, p + 1, Braces))

\* the match with the name between q[2] and q[3], the word struct at q[4] and
\* the body between b1 and b2
structRegexMatch(s, p, q, b1, b2) ==
  IF /\ LitAt(s, p, "type") /\ q[2] > q[1] /\ q[3] > q[2] /\ q[4] > q[3]
     /\ LitAt(s, q[4], "struct") /\ LitAt(s, b1 - 1, "{") /\ LitAt(s, b2, "}")
    THEN <<[name |-> SubSeq(s, q[2], q[3] - 1), body |-> SubSeq(s, b1, b2 - 1),
            end |-> b2 + 1]>>
    ELSE <<>>

structRegexBody(s, p, q, b1) ==
  structRegexMatch(s, p, q, b1, BraceGroups(s, SpanUntil(s, b1, Braces)))

structRegexHead(s, p, q) == structRegexBody(s, p, q, SpanWhile(s, q[4] + 6, SpaceSet) + 1)

\* /type\s+(\w+)\s+struct\s*\{([^{}]*(?:\{[^{}]*\}[^{}]*)*)\}/ anchored at the
\* 1-based position p: [name, body, end] with end the position after the
\* match, or <<>>
structRegexAt(s, p) ==
  IF LitAt(s, p, "type")
    THEN structRegexHead(s, p, Spans(s, <<p + 4>>, <<SpaceSet, WordSet, SpaceSet>>))
    ELSE <<>>

RECURSIVE structRegexExec(_, _, _)
\* the body of the while loop for the match m: a match without body is skipped
structRegexPush(s, structs, m) ==
  IF m.body = "" THEN structRegexExec(s, m.end, structs)
  ELSE structRegexExec(s, m.end,
         Append(structs, [name |-> m.name, fields |-> parseFields(m.body)]))

\* the loop goes on with the match at position at; 0: there is none
structRegexNext(s, structs, at) ==
  IF at = 0 THEN structs ELSE structRegexPush(s, structs, structRegexAt(s, at)[1])

\* the while loop over structRegex.exec(source), from lastIndex + 1 = p: exec
\* finds the leftmost position at which the expression matches
structRegexExec(s, p, structs) ==
  structRegexNext(s, structs, MinOf({q \in p..Len(s) : structRegexAt(s, q) # <<>>}, 0))

parseGoStructs(src) ==
  IF Trim(src) = "" THEN <<>> ELSE structRegexExec(src, 1, <<>>)

(***************************************************************************)
(* parser.ts: isValidGormKey                                               *)
(***************************************************************************)
generalTags == {"column", "type", "size", "primarykey", "autoincrement", "not null",
                "default", "unique", "embedded", "embeddedprefix", "-"}
indexConstraintTags == {"index", "uniqueindex", "priority", "check", "constraint"}
timeTags == {"autocreatetime", "autoupdatetime"}
precisionTags == {"precision", "scale", "autoincrementincrement"}
permissionTags == {"<-", "->", "comment"}
serializerTags == {"serializer"}
indexOptions == {"sort", "length", "class", "where", "option", "composite"}
relationTags == {"foreignkey", "references", "many2many", "joinforeignkey",
                 "joinreferences", "polymorphic", "polymorphicvalue"}
deprecatedAssociationTags == {"association_foreignkey", "associationforeignkey",
                              "associationreferences", "joincolumn", "associationjoincolumn"}
deprecatedTags == {"primary_key", "foreign_key", "association_foreign_key",
                   "association_save_reference", "auto_create_time", "auto_update_time",
                   "foreignkey_tag", "association_foreignkey_tag"}

isValidGormKey(key) ==
  LET lowerKey == ToLowerCase(key)
  IN  IF lowerKey \in generalTags \cup indexConstraintTags \cup timeTags \cup precisionTags
                      \cup permissionTags \cup serializerTags \cup indexOptions
        THEN [valid |-> TRUE, recommended |-> TRUE]
      ELSE IF lowerKey \in relationTags THEN [valid |-> TRUE, recommended |-> FALSE]
      ELSE IF lowerKey \in deprecatedTags THEN [valid |-> TRUE, recommended |-> FALSE]
      ELSE IF lowerKey \in deprecatedAssociationTags THEN [valid |-> FALSE, recommended |-> FALSE]
      ELSE [valid |-> FALSE, recommended |-> FALSE]

(***************************************************************************)
(* types.ts: GormDiagnostic. The optional errorTag is <<key>>, or <<>> when *)
(* the diagnostic has none.                                                *)
(***************************************************************************)
GormDiagnostic(structName, fieldName, tag, message, level, errorTag) ==
  [structName |-> structName, fieldName |-> fieldName, tag |-> tag,
   message |-> message, level |-> level, errorTag |-> errorTag]

(***************************************************************************)
(* parser.ts: checkQuoteClosure                                            *)
(***************************************************************************)
\* mutant of QuoteStep: every quote that no backslash precedes is counted,
\* inside a span of the other kind too
QuoteStepIgnoringSpans(value, q) ==
  LET char == Ch(value, q.i + 1)
      notEscaped == q.i = 0 \/ Ch(value, q.i) # "\\"
  IN  IF char = "'" /\ notEscaped
        THEN [q EXCEPT !.singleQuoteCount = @ + 1, !.inSingleQuote = ~@, !.i = @ + 1]
      ELSE IF char = "\"" /\ notEscaped
        THEN [q EXCEPT !.doubleQuoteCount = @ + 1, !.inDoubleQuote = ~@, !.i = @ + 1]
      ELSE [q EXCEPT !.i = @ + 1]

\* one iteration of the while loop, on the 0-based index q.i
QuoteStep(value, q) ==
  LET char == Ch(value, q.i + 1)
      notEscaped == q.i = 0 \/ Ch(value, q.i) # "\\"
  IN  IF char = "'" /\ ~q.inDoubleQuote
        THEN IF notEscaped
               THEN [q EXCEPT !.singleQuoteCount = @ + 1, !.inSingleQuote = ~@, !.i = @ + 1]
               ELSE [q EXCEPT !.i = @ + 1]
      ELSE IF char = "\"" /\ ~q.inSingleQuote
        THEN IF notEscaped
               THEN [q EXCEPT !.doubleQuoteCount = @ + 1, !.inDoubleQuote = ~@, !.i = @ + 1]
               ELSE [q EXCEPT !.i = @ + 1]
      ELSE [q EXCEPT !.i = @ + 1]

RECURSIVE QuoteScan(_, _)
QuoteScan(value, q) ==
  IF q.i < Len(value) THEN QuoteScan(value, QuoteStep(value, q)) ELSE q

checkQuoteClosure(value) ==
  LET q == QuoteScan(value, [singleQuoteCount |-> 0, doubleQuoteCount |-> 0,
                             inSingleQuote |-> FALSE, inDoubleQuote |-> FALSE, i |-> 0])
  IN  IF q.singleQuoteCount % 2 # 0
        THEN [hasError |-> TRUE, quoteType |-> "single",
              message |-> "Found " \o ToString(q.singleQuoteCount)
                          \o " single quotes, expected even number for proper closure."]
      ELSE IF q.doubleQuoteCount % 2 # 0
        THEN [hasError |-> TRUE, quoteType |-> "double",
              message |-> "Found " \o ToString(q.doubleQuoteCount)
                          \o " double quotes, expected even number for proper closure."]
      ELSE [hasError |-> FALSE, quoteType |-> "", message |-> ""]

(***************************************************************************)
(* parser.ts: validateTagValue. The diagnostics it pushes, in order.       *)
(***************************************************************************)
\* the numeric cases: size, precision, scale, autoincrementincrement, length, priority
NumericMessage(key, value) ==
  CASE key = "size" -> "Invalid size value '" \o value \o "'. Size must be a positive integer."
    [] key = "precision" ->
         "Invalid precision value '" \o value \o "'. Precision must be a positive integer."
    [] key = "scale" -> "Invalid scale value '" \o value \o "'. Scale must be a positive integer."
    [] key = "autoincrementincrement" ->
         "Invalid autoIncrementIncrement value '" \o value \o "'. Must be a positive integer."
    [] key = "length" ->
         "Invalid length value '" \o value \o "'. Length must be a positive integer."
    [] key = "priority" ->
         "Invalid priority value '" \o value \o "'. Priority must be a positive integer."

\* the cases that only require a value, with the level of their finding
RequiredValueMessage(key) ==
  CASE key = "type" -> "Type tag requires a value."
    [] key = "column" -> "Column tag requires a column name."
    [] key = "check" -> "Check constraint requires a condition."
    [] key = "foreignkey" -> "ForeignKey tag requires a field name."
    [] key = "references" -> "References tag requires a field name."
    [] key = "many2many" -> "Many2many tag requires a table name."
    [] key \in {"joinforeignkey", "joinreferences"} -> key \o " tag requires a field name."
    [] key = "embeddedprefix" -> "EmbeddedPrefix tag requires a prefix value."

\* mutant of HasMixedQuoteStyles: one kind of quote is enough
HasSomeQuote(value) == Includes(value, "'") \/ Includes(value, "\"")

\* value.includes("'") && value.includes('"')
HasMixedQuoteStyles(value) == Includes(value, "'") /\ Includes(value, "\"")

RECURSIVE InvalidConstraintOptions(_, _)
\* the loop over the comma-separated constraint options: the options reported
InvalidConstraintOptions(constraintParts, i) ==
  IF i > Len(constraintParts) THEN <<>>
  ELSE LET option == Split(constraintParts[i], ":")[1]
       IN  (IF option # "" /\ Trim(option) \notin {"onupdate", "ondelete"}
              THEN <<option>> ELSE <<>>)
           \o InvalidConstraintOptions(constraintParts, i + 1)

validateTagValue(key, value, structName, fieldName, tag, originalKey) ==
  LET D(message, level) ==
        GormDiagnostic(structName, fieldName, tag, message, level,
                       <<IF originalKey # "" THEN originalKey ELSE key>>)
      missing == Trim(value) = ""
  IN  CASE key \in {"size", "precision", "scale", "autoincrementincrement", "length", "priority"} ->
             IF value # "" /\ ~IsDigits(value) THEN <<D(NumericMessage(key, value), "error")>> ELSE <<>>
        [] key \in {"type", "column", "check", "foreignkey", "references", "many2many",
                    "joinforeignkey", "joinreferences"} ->
             IF missing THEN <<D(RequiredValueMessage(key), "error")>> ELSE <<>>
        [] key = "embeddedprefix" ->
             IF missing THEN <<D(RequiredValueMessage(key), "warning")>> ELSE <<>>
        [] key = "comment" ->
             IF missing THEN <<D("Comment tag requires a comment text.", "warning")>>
             ELSE LET hasUnmatchedQuotes == checkQuoteClosure(value)
                  IN  (IF hasUnmatchedQuotes.hasError
                         THEN <<D("Comment value has unmatched " \o hasUnmatchedQuotes.quoteType
                                  \o " quotes. " \o hasUnmatchedQuotes.message, "error")>>
                         ELSE <<>>)
                      \o (IF HasMixedQuoteStyles(value)
                            THEN <<D("Comment value contains both single and double quotes. Consider using consistent quote style or proper escaping.", "warning")>>
                            ELSE <<>>)
        [] key = "default" ->
             IF value # "" /\ HasMixedQuoteStyles(value)
               THEN <<D("Default value should use consistent quote style.", "warning")>>
               ELSE <<>>
        [] key = "serializer" ->
             IF value # "" /\ ToLowerCase(value) \notin {"json", "gob", "unixtime"}
               THEN <<D("Invalid serializer '" \o value \o "'. Valid options: json, gob, unixtime.", "error")>>
               ELSE <<>>
        [] key = "sort" ->
             IF value # "" /\ ToLowerCase(value) \notin {"asc", "desc"}
               THEN <<D("Invalid sort value '" \o value \o "'. Valid options: asc, desc.", "error")>>
               ELSE <<>>
        [] key \in {"autocreatetime", "autoupdatetime"} ->
             IF value # "" /\ ToLowerCase(value) \notin {"", "nano", "milli"}
               THEN <<D("Invalid time precision '" \o value \o "'. Valid options: '', 'nano', 'milli'.", "error")>>
               ELSE <<>>
        [] key = "<-" ->
             IF value # "" /\ ToLowerCase(value) \notin {"create", "update", "false"}
               THEN <<D("Invalid write permission '" \o value \o "'. Valid options: 'create', 'update', 'false'.", "error")>>
               ELSE <<>>
        [] key = "->" ->
             IF value # "" /\ ToLowerCase(value) # "false"
               THEN <<D("Invalid read permission '" \o value \o "'. Valid option: 'false'.", "error")>>
               ELSE <<>>
        [] key = "constraint" ->
             IF missing
               THEN <<D("Constraint tag requires constraint options (e.g., OnUpdate:CASCADE,OnDelete:SET NULL).", "error")>>
               ELSE LET options == InvalidConstraintOptions(Split(ToLowerCase(value), ","), 1)
                    IN  [j \in 1..Len(options) |->
                           D("Invalid constraint option '" \o options[j]
                             \o "'. Valid options: OnUpdate, OnDelete.", "warning")]
        [] key = "-" ->
             IF value # "" /\ ToLowerCase(value) \notin {"", "all", "migration"}
               THEN <<D("Invalid ignore option '" \o value \o "'. Valid options: , all, migration.", "error")>>
               ELSE <<>>
        [] OTHER -> <<>>

(***************************************************************************)
(* parser.ts: validateTagCombinations. keys is the Set of lower-cased keys *)
(* seen so far, as the sequence of its elements in insertion order.        *)
(***************************************************************************)
Has(keys, k) == \E i \in 1..Len(keys) : keys[i] = k

\* mutant of SetAdd: the keys are kept in a list, a repeated key is added again
SetAddAsList(keys, k) == Append(keys, k)

SetAdd(keys, k) == IF Has(keys, k) THEN keys ELSE Append(keys, k)

validateTagCombinations(keys, currentKey, structName, fieldName, tag, originalKey) ==
  LET D(message, level) ==
        GormDiagnostic(structName, fieldName, tag, message, level,
                       <<IF originalKey # "" THEN originalKey ELSE currentKey>>)
      IsOther(k) == k # "-"
      otherTags == SelectSeq(keys, IsOther)
      IsFound(k) == Has(keys, k)
      foundPermissionTags == SelectSeq(<<"<-", "->", "-">>, IsFound)
  IN  (IF currentKey = "primarykey" /\ Has(keys, "unique")
         THEN <<D("'primaryKey' automatically implies uniqueness. Remove 'unique' tag.", "warning")>>
         ELSE <<>>)
      \o (IF currentKey = "primarykey" /\ Has(keys, "not null")
            THEN <<D("'primaryKey' automatically implies 'not null'. Remove 'not null' tag.", "warning")>>
            ELSE <<>>)
      \o (IF Has(keys, "-") /\ Len(keys) > 1
            THEN <<D("Field marked as ignored ('-') cannot have other tags: "
                     \o Join(otherTags, ", ") \o ". Remove conflicting tags.", "error")>>
            ELSE <<>>)
      \o (IF Len(foundPermissionTags) > 1
            THEN <<D("Conflicting permission tags: " \o Join(foundPermissionTags, ", ")
                     \o ". Use only one permission control tag.", "error")>>
            ELSE <<>>)
      \o (IF Has(keys, "autocreatetime") /\ Has(keys, "autoupdatetime")
             /\ currentKey = "autoupdatetime"
            THEN <<D("Field has both creation and update time tracking. Ensure this is intentional.", "warning")>>
            ELSE <<>>)
      \o (IF Has(keys, "index") /\ Has(keys, "uniqueindex")
            THEN <<D("Field has both 'index' and 'uniqueIndex'. Consider using only 'uniqueIndex'.", "warning")>>
            ELSE <<>>)
      \o (IF Has(keys, "foreignkey") /\ ~Has(keys, "references")
            THEN <<D("'foreignKey' should be used together with 'references' for proper relationship definition.", "warning")>>
            ELSE <<>>)
      \o (IF Has(keys, "many2many") /\ (Has(keys, "foreignkey") \/ Has(keys, "references"))
            THEN <<D("'many2many' cannot be used with 'foreignKey' or 'references'. Use association struct instead.", "error")>>
            ELSE <<>>)
      \o (IF Has(keys, "embedded") /\ Has(keys, "column")
            THEN <<D("'embedded' fields expand into multiple columns, 'column' tag is not applicable.", "error")>>
            ELSE <<>>)

(***************************************************************************)
(* parser.ts: validateGormTags, the loop over the entries of one field.    *)
(* The locals of the struct iteration are a record loc:                    *)
(*   columnValues      Map value -> field name, as a sequence of pairs     *)
(*   primaryKeyFields  string[]                                            *)
(*   indexNames        Map name -> string[], as a sequence of pairs in     *)
(*                     insertion order                                     *)
(*   keys              the Set of the current field, in insertion order    *)
(* and out is the diagnostics array.                                       *)
(***************************************************************************)
\* mutant of TagParts: the empty parts are not filtered out
TagPartsUnfiltered(gormTag) ==
  LET parts == Split(gormTag, ";")
  IN  [i \in 1..Len(parts) |-> Trim(parts[i])]

\* field.gormTag.split(';').map(part => part.trim()).filter(part => part.length > 0)
TagParts(gormTag) ==
  LET parts == Split(gormTag, ";")
      trimmed == [i \in 1..Len(parts) |-> Trim(parts[i])]
      NonEmpty(part) == Len(part) > 0
  IN  SelectSeq(trimmed, NonEmpty)

\* mutant of PartKey: the entry is split at a colon that is its first character too
PartKeyAtAnyColon(part) ==
  LET colonIndex == IndexOf(part, ":")
  IN  IF colonIndex >= 0 THEN Trim(Substring(part, 0, colonIndex)) ELSE Trim(part)

PartKey(part) ==
  LET colonIndex == IndexOf(part, ":")
  IN  IF colonIndex > 0 THEN Trim(Substring(part, 0, colonIndex)) ELSE Trim(part)

PartValue(part) ==
  LET colonIndex == IndexOf(part, ":")
  IN  IF colonIndex > 0 THEN Trim(SubstringFrom(part, colonIndex + 1)) ELSE ""

\* mutant of LowerKey: the key is compared as written
LowerKeyAsWritten(key) == key

\* const lowerKey = key.toLowerCase()
LowerKey(key) == ToLowerCase(key)

MapHas(map, k) == \E i \in 1..Len(map) : map[i][1] = k

MapGet(map, k) == map[CHOOSE i \in 1..Len(map) : map[i][1] = k][2]

\* keys.has(lowerKey), before keys.add(lowerKey)
IsDuplicateKey(keys, lowerKey) == Has(keys, lowerKey)

\* mutant of PrimaryKeyUniqueConflicts: only the first of the two checks
PrimaryKeyUniqueConflictsFirstOnly(keys, lowerKey) ==
  IF lowerKey = "primarykey" /\ Has(keys, "unique")
    THEN <<"'primaryKey' and 'unique' cannot be used together">> ELSE <<>>

\* the two checks of the primaryKey and unique conflict: the messages pushed
PrimaryKeyUniqueConflicts(keys, lowerKey) ==
  (IF lowerKey = "primarykey" /\ Has(keys, "unique")
     THEN <<"'primaryKey' and 'unique' cannot be used together">> ELSE <<>>)
  \o (IF lowerKey = "unique" /\ Has(keys, "primarykey")
        THEN <<"'unique' and 'primaryKey' cannot be used together">> ELSE <<>>)

\* primaryKeyFields after the entry
RecordPrimaryKey(primaryKeyFields, lowerKey, fieldName) ==
  IF lowerKey = "primarykey" THEN Append(primaryKeyFields, fieldName) ELSE primaryKeyFields

\* the column entry is a duplicate of a recorded one
IsDuplicateColumn(columnValues, lowerKey, value) ==
  lowerKey = "column" /\ value # "" /\ MapHas(columnValues, value)

\* columnValues after the entry
RecordColumn(columnValues, lowerKey, value, fieldName) ==
  IF lowerKey = "column" /\ value # "" /\ ~MapHas(columnValues, value)
    THEN Append(columnValues, <<value, fieldName>>)
    ELSE columnValues

\* indexNames after the entry
RecordIndex(indexNames, lowerKey, value, fieldName) ==
  IF lowerKey \in {"index", "uniqueindex"} /\ value # ""
    THEN IF MapHas(indexNames, value)
           THEN [i \in 1..Len(indexNames) |->
                   IF indexNames[i][1] = value
                     THEN <<value, Append(indexNames[i][2], fieldName)>>
                     ELSE indexNames[i]]
           ELSE Append(indexNames, <<value, <<fieldName>> >>)
    ELSE indexNames

\* the finding of the classification check
KeyValidityFindings(lowerKey, key, structName, fieldName, tag) ==
  LET keyValidation == isValidGormKey(lowerKey)
  IN  IF ~keyValidation.valid
        THEN <<GormDiagnostic(structName, fieldName, tag,
                 "Unknown GORM tag '" \o key \o "'. Check GORM documentation for valid tags.",
                 "error", <<key>>)>>
      ELSE IF ~keyValidation.recommended
        THEN <<GormDiagnostic(structName, fieldName, tag,
                 "GORM tag '" \o key \o "' is deprecated or not recommended. Consider using alternative approaches.",
                 "warning", <<key>>)>>
      ELSE <<>>

\* the body of the loop over tagParts: the locals and the diagnostics after part
ValidatePart(loc, out, structName, field, part) ==
  LET key == PartKey(part)
      value == PartValue(part)
      lowerKey == LowerKey(key)
      keys == SetAdd(loc.keys, lowerKey)
      D(message) == GormDiagnostic(structName, field.name, field.gormTag, message, "error", <<key>>)
      conflicts == PrimaryKeyUniqueConflicts(keys, lowerKey)
  IN  [loc |-> [keys |-> keys,
                primaryKeyFields |-> RecordPrimaryKey(loc.primaryKeyFields, lowerKey, field.name),
                columnValues |-> RecordColumn(loc.columnValues, lowerKey, value, field.name),
                indexNames |-> RecordIndex(loc.indexNames, lowerKey, value, field.name)],
       out |-> out
         \o (IF IsDuplicateKey(loc.keys, lowerKey)
               THEN <<D("Duplicate GORM tag key '" \o key \o "' in field")>> ELSE <<>>)
         \o [j \in 1..Len(conflicts) |-> D(conflicts[j])]
         \o (IF IsDuplicateColumn(loc.columnValues, lowerKey, value)
               THEN <<D("Duplicate column name '" \o value \o "' already used by field '"
                        \o MapGet(loc.columnValues, value)
                        \o "'. Each column name must be unique within the struct.")>>
               ELSE <<>>)
         \o KeyValidityFindings(lowerKey, key, structName, field.name, field.gormTag)
         \o validateTagValue(lowerKey, value, structName, field.name, field.gormTag, key)
         \o validateTagCombinations(keys, lowerKey, structName, field.name, field.gormTag, key)]

RECURSIVE ValidateParts(_, _, _, _, _, _)
ValidateParts(loc, out, structName, field, tagParts, i) ==
  IF i > Len(tagParts) THEN [loc |-> loc, out |-> out]
  ELSE LET r == ValidatePart(loc, out, structName, field, tagParts[i])
       IN  ValidateParts(r.loc, r.out, structName, field, tagParts, i + 1)

\* the field is skipped: if (!field.gormTag || field.gormTag.trim().length === 0) continue
HasNoGormTag(field) == Trim(field.gormTag) = ""

\* one iteration of the loop over struct.fields, for a field that is not skipped
\* (nothing in the try block throws, and validateFieldLevelRules pushes nothing)
ValidateField(loc, out, structName, field) ==
  ValidateParts([loc EXCEPT !.keys = <<>>], out, structName, field, TagParts(field.gormTag), 1)

(***************************************************************************)
(* parser.ts: validateGormTags, the struct-wide checks after the fields    *)
(***************************************************************************)
\* struct.fields.find(f => f.name === fieldName)
FindField(fields, fieldName) ==
  IF \E i \in 1..Len(fields) : fields[i].name = fieldName
    THEN <<fields[CHOOSE i \in 1..Len(fields) :
                    fields[i].name = fieldName /\ \A j \in 1..(i - 1) : fields[j].name # fieldName]>>
    ELSE <<>>

RECURSIVE FindingsFor(_, _, _, _, _)
\* the loop that pushes one diagnostic for each name of fieldNames
FindingsFor(struct, fieldNames, i, message, level) ==
  IF i > Len(fieldNames) THEN <<>>
  ELSE LET found == FindField(struct.fields, fieldNames[i])
       IN  (IF found # <<>>
              THEN <<GormDiagnostic(struct.name, found[1].name, found[1].gormTag, message, level, <<>>)>>
              ELSE <<>>)
           \o FindingsFor(struct, fieldNames, i + 1, message, level)

MultiplePrimaryKeyFindings(struct, primaryKeyFields) ==
  IF Len(primaryKeyFields) > 1
    THEN FindingsFor(struct, primaryKeyFields, 1,
           "Multiple primary keys found in struct. Only one primary key is allowed.", "error")
    ELSE <<>>

RECURSIVE SharedIndexFindings(_, _, _)
\* the loop over indexNames.entries()
SharedIndexFindings(struct, indexNames, i) ==
  IF i > Len(indexNames) THEN <<>>
  ELSE LET indexName == indexNames[i][1]
           fieldsUsingIndex == indexNames[i][2]
       IN  (IF Len(fieldsUsingIndex) > 1
              THEN FindingsFor(struct, fieldsUsingIndex, 1,
                     "Index '" \o indexName \o "' is used by multiple fields: "
                     \o Join(fieldsUsingIndex, ", ")
                     \o ". Ensure this is intended for composite index.", "warning")
              ELSE <<>>)
           \o SharedIndexFindings(struct, indexNames, i + 1)

(***************************************************************************)
(* parser.ts: findFieldRange. Lines and characters are 0-based.            *)
(***************************************************************************)
Position(line, character) == [line |-> line, character |-> character]

\* mutant of TokenRange: the range ends where it starts
TokenRangeEmpty(line, start, length) ==
  [start |-> Position(line, start), end |-> Position(line, start)]

\* the range of a token of the given length on one line
TokenRange(line, start, length) ==
  [start |-> Position(line, start), end |-> Position(line, start + length)]

\* the branch taken on the first line whose trimmed text starts with the field
\* name: the span of errorTag after the gorm keyword of the line, else the
\* span of the field name
FieldLineRange(line, i, fieldName, errorTag) ==
  LET gormTagStart == IndexOf(line, "gorm:")
      absoluteStart == IF errorTag # <<>> /\ errorTag[1] # "" /\ gormTagStart >= 0
                         THEN IndexOfFrom(line, errorTag[1], gormTagStart)
                         ELSE -1
  IN  IF absoluteStart >= 0
        THEN TokenRange(i, absoluteStart, Len(errorTag[1]))
        ELSE TokenRange(i, IndexOf(line, fieldName), Len(fieldName))

\* mutant of StructRange: the span of the struct name is built although no
\* struct line was found, on the first line
StructRangeUnguarded(lines, structStartLine, structName) ==
  TokenRange(Max(structStartLine, 0), IndexOf(lines[Max(structStartLine, 0) + 1], structName),
             Len(structName))

\* what is returned when the loop has ended without a field line: the struct
\* name on the struct's line, else the start of the document
StructRange(lines, structStartLine, structName) ==
  IF structStartLine >= 0
    THEN TokenRange(structStartLine, IndexOf(lines[structStartLine + 1], structName),
                    Len(structName))
    ELSE [start |-> Position(0, 0), end |-> Position(0, 1)]

\* trimmedLine.startsWith(fieldName)
IsFieldLine(trimmedLine, fieldName) == StartsWith(trimmedLine, fieldName)

RECURSIVE findFieldRangeFrom(_, _, _, _, _, _)
\* the loop over the lines, at line i, with structStartLine (-1 as long as the
\* struct has not been found; inStruct and structFound are set with it)
findFieldRangeFrom(lines, i, structStartLine, structName, fieldName, errorTag) ==
  IF i >= Len(lines) THEN StructRange(lines, structStartLine, structName)
  ELSE LET line == lines[i + 1]
       IN  IF Includes(line, "type " \o structName \o " struct")
             THEN findFieldRangeFrom(lines, i + 1, i, structName, fieldName, errorTag)
           ELSE IF structStartLine >= 0 /\ Trim(line) = "}"
             THEN StructRange(lines, structStartLine, structName)
           ELSE IF structStartLine >= 0 /\ IsFieldLine(Trim(line), fieldName)
             THEN FieldLineRange(line, i, fieldName, errorTag)
           ELSE findFieldRangeFrom(lines, i + 1, structStartLine, structName, fieldName,
                                   errorTag)

findFieldRange(src, structName, fieldName, errorTag) ==
  findFieldRangeFrom(Split(src, "\n"), 0, -1, structName, fieldName, errorTag)

(***************************************************************************)
(* server.ts: validateGoFile, from the list of validateGormTags to the      *)
(* diagnostics it returns (relatedInformation, which repeats the range and  *)
(* the names, is left out)                                                  *)
(***************************************************************************)
\* defaultSettings
defaultMaxNumberOfProblems == 1000

\* array.slice(0, end)
SliceTo(array, end) ==
  LET to == IF end < 0 THEN Max(Len(array) + end, 0) ELSE Min(end, Len(array))
  IN  SubSeq(array, 1, to)

\* settings.maxNumberOfProblems || 1000: the property is undefined when the
\* settings do not have it, and undefined and 0 are both falsy
maxProblems(config) ==
  IF "maxNumberOfProblems" \in DOMAIN config /\ config.maxNumberOfProblems # 0
    THEN config.maxNumberOfProblems
    ELSE defaultMaxNumberOfProblems

\* the range with no negative component, and its end moved one character
\* after its start when it lies before it
validRange(range) ==
  LET start == Position(Max(0, range.start.line), Max(0, range.start.character))
      end == Position(Max(0, range.end.line), Max(0, range.end.character))
  IN  IF end.line < start.line \/ (end.line = start.line /\ end.character < start.character)
        THEN [start |-> start, end |-> Position(start.line, start.character + 1)]
        ELSE [start |-> start, end |-> end]

\* the Diagnostic built for a finding
Diagnostic(range, diag) ==
  [range |-> validRange(range), message |-> diag.message,
   severity |-> IF diag.level = "error" THEN "Error" ELSE "Warning",
   source |-> "GORM Tool", code |-> "gorm-" \o diag.level]

(***************************************************************************)
(* The documents the model is run on. A document is built from structs,    *)
(* a struct from fields, a field from its tag literal.                     *)
(***************************************************************************)
\* a field line with a double-quoted gorm literal, as the README writes them
TaggedLine(name, literal) ==
  "\t" \o name \o " string " \o Backtick \o "gorm:\"" \o literal \o "\"" \o Backtick \o "\n"

\* a field line whose gorm literal is written without quotes
BareTaggedLine(name, literal) ==
  "\t" \o name \o " string " \o Backtick \o "gorm:" \o literal \o Backtick \o "\n"

\* a field line whose literal has no gorm segment
JsonLine(name) ==
  "\t" \o name \o " string " \o Backtick \o "json:\"" \o name \o "\"" \o Backtick \o "\n"

UntaggedLine(name) == "\t" \o name \o " string\n"

StructText(name, body) == "type " \o name \o " struct {\n" \o body \o "}\n"

FieldNames == <<"ID", "Name", "Email", "Age">>
StructNames == <<"User", "Order", "Item", "Shop">>

\* the lines that stand for a field without gorm literal
Untagged == {"", "json"}

FieldLine(name, literal) ==
  IF literal = "" THEN UntaggedLine(name)
  ELSE IF literal = "json" THEN JsonLine(name)
  ELSE TaggedLine(name, literal)

RECURSIVE StructBody(_, _)
\* the field lines of the literals, the i-th field named FieldNames[i]
StructBody(literals, i) ==
  IF i > Len(literals) THEN ""
  ELSE FieldLine(FieldNames[i], literals[i]) \o StructBody(literals, i + 1)

RECURSIVE DocumentText(_, _)
\* the text of the structs whose fields carry the literals of bodies[i]
DocumentText(bodies, i) ==
  IF i > Len(bodies) THEN ""
  ELSE StructText(StructNames[i], StructBody(bodies[i], 1)) \o "\n" \o DocumentText(bodies, i + 1)

SeqsUpTo(S, n) == UNION {[1..k -> S] : k \in 1..n}

MaxFields == 2
MaxStructs == 2

\* the literals of the fields of the single-struct documents
FieldLiterals ==
  {"", "json", "primaryKey", "PrimaryKey;primarykey", "column:a", "Column:a;column:a",
   "column:b;index:i", "uniqueIndex:i;size:10"}

\* the structs of the documents with several structs
StructBodies ==
  {<<"", "json">>, <<"primaryKey">>, <<"column:a;index:i", "primaryKey;column:a">>,
   <<"index:i;unique;primaryKey">>}

Documents ==
  {DocumentText(<<literals>>, 1) : literals \in SeqsUpTo(FieldLiterals, MaxFields)}
  \cup {DocumentText(bodies, 1) : bodies \in SeqsUpTo(StructBodies, MaxStructs)}
  \cup {"", " \n", "package main\n"}

(***************************************************************************)
(* The state: one run of validateGoFile on the text source, step by step.  *)
(*   pc           where the run is                                         *)
(*   structs      the result of parseGoStructs                             *)
(*   si, fi       the struct and the field the loops of validateGormTags   *)
(*                are at (1-based)                                         *)
(*   loc, hasGormTags  the locals of the struct iteration                  *)
(*   diagnostics  the array validateGormTags builds and returns            *)
(*   origin       history: for each diagnostic, the struct and field       *)
(*                iteration that pushed it (field 0: the struct-wide pass) *)
(*   located      history: what findFieldRange returned for each of the    *)
(*                diagnostics presented                                    *)
(*   items        the diagnostics validateGoFile returns                   *)
(*   settings     the settings of the document                             *)
(*   requests     the number of diagnostics requests the server has got    *)
(*   query        history: the arguments of a call of findFieldRange that  *)
(*                is not made by validateGoFile                            *)
(*   results      history: the text and the diagnostics of the runs that   *)
(*                have returned                                            *)
(*   thrown       history: the exceptions raised in the try block of the   *)
(*                field loop, each with its field and the diagnostics      *)
(*                that were there when it was raised                       *)
(***************************************************************************)
VARIABLES source, pc, structs, si, fi, loc, hasGormTags, diagnostics, origin,
          located, items, settings, requests, results, query, thrown

vars == <<source, pc, structs, si, fi, loc, hasGormTags, diagnostics, origin,
          located, items, settings, requests, results, query, thrown>>

\* what a step of a run leaves alone
server == <<settings, requests, results, query, thrown>>

\* what validateGoFile builds from the list of validateGormTags
presented == <<located, items>>

\* mutant of NewStructLocals: the maps and the list are not created anew, they
\* are those of the struct validated before
StaleStructLocals == [loc EXCEPT !.keys = <<>>]

\* the locals a struct iteration starts with: new Map(), [], new Map()
NewStructLocals ==
  [columnValues |-> <<>>, primaryKeyFields |-> <<>>, indexNames |-> <<>>, keys |-> <<>>]

\* defaultSettings
defaultSettings == [maxNumberOfProblems |-> defaultMaxNumberOfProblems]

\* no call of findFieldRange from outside validateGoFile
NoQuery == <<>>

\* the text of a document and its settings, before anything has been called
Start(text, at, config) ==
  /\ source = text
  /\ pc = at
  /\ structs = <<>>
  /\ si = 1
  /\ fi = 1
  /\ loc = [columnValues |-> <<>>, primaryKeyFields |-> <<>>, indexNames |-> <<>>, keys |-> <<>>]
  /\ hasGormTags = FALSE
  /\ diagnostics = <<>>
  /\ origin = <<>>
  /\ located = <<>>
  /\ items = <<>>
  /\ settings = config
  /\ requests = 1
  /\ results = {}
  /\ query = NoQuery
  /\ thrown = <<>>

\* validateGoFile is entered with the text of the document
StartRun(text) == Start(text, "parse", defaultSettings)

Init == \E text \in Documents : StartRun(text)

Origins(n, s, f) == [j \in 1..n |-> [struct |-> s, field |-> f]]

\* validateGoFile up to the call of validateGormTags: an empty text or a text
\* without structs returns no diagnostics
ParseDocument ==
  /\ pc = "parse"
  /\ LET parsed == IF Trim(source) = "" THEN <<>> ELSE parseGoStructs(source)
     IN  /\ structs' = parsed
         /\ pc' = IF parsed = <<>> THEN "done" ELSE "struct"
  /\ si' = 1
  /\ diagnostics' = <<>>
  /\ origin' = <<>>
  /\ located' = <<>>
  /\ items' = <<>>
  /\ UNCHANGED <<source, fi, loc, hasGormTags, server>>

\* validateGormTags: the head of the loop over structs
BeginStruct ==
  /\ pc = "struct"
  /\ si <= Len(structs)
  /\ IF Len(structs[si].fields) = 0
       THEN /\ si' = si + 1
            /\ UNCHANGED <<pc, fi, loc, hasGormTags>>
       ELSE /\ loc' = NewStructLocals
            /\ hasGormTags' = FALSE
            /\ fi' = 1
            /\ pc' = "field"
            /\ UNCHANGED si
  /\ UNCHANGED <<source, structs, diagnostics, origin, presented, server>>

\* validateGormTags: one iteration of the loop over struct.fields
ValidateNextField ==
  /\ pc = "field"
  /\ fi <= Len(structs[si].fields)
  /\ LET field == structs[si].fields[fi]
     IN  IF HasNoGormTag(field)
           THEN UNCHANGED <<loc, hasGormTags, diagnostics, origin>>
           ELSE LET r == ValidateField(loc, diagnostics, structs[si].name, field)
                IN  /\ hasGormTags' = TRUE
                    /\ loc' = r.loc
                    /\ diagnostics' = r.out
                    /\ origin' = origin \o Origins(Len(r.out) - Len(diagnostics), si, fi)
  /\ fi' = fi + 1
  /\ UNCHANGED <<source, pc, structs, si, presented, server>>

\* mutant of EndStruct: the struct-wide findings are put in front of the list
EndStructInFront ==
  /\ pc = "field"
  /\ fi > Len(structs[si].fields)
  /\ LET found == IF hasGormTags
                    THEN MultiplePrimaryKeyFindings(structs[si], loc.primaryKeyFields)
                         \o SharedIndexFindings(structs[si], loc.indexNames, 1)
                    ELSE <<>>
     IN  /\ diagnostics' = found \o diagnostics
         /\ origin' = Origins(Len(found), si, 0) \o origin
  /\ si' = si + 1
  /\ pc' = "struct"
  /\ UNCHANGED <<source, structs, fi, loc, hasGormTags, presented, server>>

\* validateGormTags: after the fields of a struct, the struct-wide checks
EndStruct ==
  /\ pc = "field"
  /\ fi > Len(structs[si].fields)
  /\ LET found == IF hasGormTags
                    THEN MultiplePrimaryKeyFindings(structs[si], loc.primaryKeyFields)
                         \o SharedIndexFindings(structs[si], loc.indexNames, 1)
                    ELSE <<>>
     IN  /\ diagnostics' = diagnostics \o found
         /\ origin' = origin \o Origins(Len(found), si, 0)
  /\ si' = si + 1
  /\ pc' = "struct"
  /\ UNCHANGED <<source, structs, fi, loc, hasGormTags, presented, server>>

\* validateGormTags returns diagnostics
ReturnDiagnostics ==
  /\ pc = "struct"
  /\ si > Len(structs)
  /\ pc' = "validated"
  /\ UNCHANGED <<source, structs, si, fi, loc, hasGormTags, diagnostics, origin,
                 presented, server>>

\* validateGoFile after the call of validateGormTags: the first maxProblems
\* findings, each with the range findFieldRange returns for it
PresentDiagnostics ==
  /\ pc = "validated"
  /\ LET limitedDiagnostics == SliceTo(diagnostics, maxProblems(settings))
         RangeOf(k) == findFieldRange(source, limitedDiagnostics[k].structName,
                                      limitedDiagnostics[k].fieldName,
                                      limitedDiagnostics[k].errorTag)
     IN  /\ located' = [k \in 1..Len(limitedDiagnostics) |-> RangeOf(k)]
         /\ items' = [k \in 1..Len(limitedDiagnostics) |->
                        Diagnostic(RangeOf(k), limitedDiagnostics[k])]
  /\ pc' = "done"
  /\ UNCHANGED <<source, structs, si, fi, loc, hasGormTags, diagnostics, origin, server>>

Next ==
  \/ ParseDocument
  \/ BeginStruct
  \/ ValidateNextField
  \/ EndStruct
  \/ ReturnDiagnostics
  \/ PresentDiagnostics

Spec == Init /\ [][Next]_vars

(***************************************************************************)
(* server.ts: the server answers one diagnostics request after the other,  *)
(* each with a run of validateGoFile on the text of the requested document *)
(***************************************************************************)
MaxRequests == 3

\* the documents that are requested again and again
RepeatDocuments ==
  { "",
    DocumentText(<< <<"column:a">> >>, 1),
    DocumentText(<< <<"primaryKey;index:i", "column:a;primaryKey">> >>, 1),
    DocumentText(<< <<"column:a;index:i", "column:a;index:i">>, <<"column:a">> >>, 1) }

InitRepeat == \E text \in RepeatDocuments : StartRun(text)

\* connection.languages.diagnostics.on: the next request, once the run before
\* it has returned; the locals of that run are gone, what the variables still
\* hold of them is not read before it is set again
NextRequest ==
  /\ pc = "done"
  /\ requests < MaxRequests
  /\ requests' = requests + 1
  /\ results' = results \cup {[source |-> source, diagnostics |-> diagnostics]}
  /\ \E text \in RepeatDocuments : source' = text
  /\ pc' = "parse"
  /\ UNCHANGED <<structs, si, fi, loc, hasGormTags, diagnostics, origin, presented, settings,
                 query, thrown>>

NextRepeat == Next \/ NextRequest

SpecRepeat == InitRepeat /\ [][NextRepeat]_vars

(***************************************************************************)
(* The documents with one struct of one field, whose literal is every      *)
(* sequence of up to MaxEntries of the entries                             *)
(***************************************************************************)
MaxEntries == 3

Entries == {"primaryKey", "PRIMARYKEY", "unique", "Unique", "size:1", " Size : x "}

EntryLiterals == {Join(entries, ";") : entries \in SeqsUpTo(Entries, MaxEntries)}

EntryDocuments == {DocumentText(<< <<literal>> >>, 1) : literal \in EntryLiterals}

InitEntries == \E text \in EntryDocuments : StartRun(text)

SpecEntries == InitEntries /\ [][Next]_vars

(***************************************************************************)
(* What the claims speak of                                                *)
(***************************************************************************)
Indices(n) == [i \in 1..n |-> i]

Range(seq) == {seq[i] : i \in 1..Len(seq)}

\* the diagnostics pushed by the iteration of field f of struct s (f = 0: by
\* the struct-wide pass of s), in the order of the list
DiagnosticsOf(s, f) ==
  LET Mine(j) == origin[j] = [struct |-> s, field |-> f]
      mine == SelectSeq(Indices(Len(diagnostics)), Mine)
  IN  [k \in 1..Len(mine) |-> diagnostics[mine[k]]]

\* all diagnostics of struct s
DiagnosticsOfStruct(s) ==
  LET Mine(j) == origin[j].struct = s
      mine == SelectSeq(Indices(Len(diagnostics)), Mine)
  IN  [k \in 1..Len(mine) |-> diagnostics[mine[k]]]

\* the entries of a literal as [key, value] records, in their order
EntriesOf(gormTag) ==
  LET parts == TagParts(gormTag)
  IN  [i \in 1..Len(parts) |-> [key |-> PartKey(parts[i]), value |-> PartValue(parts[i])]]

SameKey(k1, k2) == ToLowerCase(k1) = ToLowerCase(k2)

IsDuplicateKeyError(d) == d.level = "error" /\ StartsWith(d.message, "Duplicate GORM tag key")

\* the <<struct, field>> index pairs of the parsed document
AllFields == UNION {{<<s, f>> : f \in 1..Len(structs[s].fields)} : s \in 1..Len(structs)}

TaggedFields == {sf \in AllFields : ~HasNoGormTag(structs[sf[1]].fields[sf[2]])}

FieldAt(sf) == structs[sf[1]].fields[sf[2]]

\* C2: when validateGormTags has returned, the 'Duplicate GORM tag key' errors
\* of every tagged field are, in order, one for each entry whose key equals
\* (ignoring letter case) the key of an earlier entry of that field; each
\* carries that entry's key as written, in its message and as its errorTag,
\* and is attributed to the field. A field whose keys are pairwise distinct
\* ignoring case gets none.
C2_DuplicateKey ==
  pc = "validated" =>
    \A sf \in TaggedFields :
      LET field == FieldAt(sf)
          entries == EntriesOf(field.gormTag)
          Repeats(i) == \E h \in 1..(i - 1) : SameKey(entries[h].key, entries[i].key)
          repeats == SelectSeq(Indices(Len(entries)), Repeats)
          reported == SelectSeq(DiagnosticsOf(sf[1], sf[2]), IsDuplicateKeyError)
      IN  reported =
            [k \in 1..Len(repeats) |->
               GormDiagnostic(structs[sf[1]].name, field.name, field.gormTag,
                 "Duplicate GORM tag key '" \o entries[repeats[k]].key \o "' in field",
                 "error", <<entries[repeats[k]].key>>)]

\* a field with a key repeated in another letter case has got its error
C2_Witness ==
  /\ pc = "validated"
  /\ \E sf \in TaggedFields :
       LET entries == EntriesOf(FieldAt(sf).gormTag)
       IN  /\ Len(entries) = 3
           /\ entries[1].key = "primaryKey"
           /\ entries[3].key = "PRIMARYKEY"
           /\ \E d \in Range(DiagnosticsOf(sf[1], sf[2])) :
                IsDuplicateKeyError(d) /\ d.errorTag = <<"PRIMARYKEY">>

HasKey(entries, lowerKey) == \E i \in 1..Len(entries) : ToLowerCase(entries[i].key) = lowerKey

IsConflictError(d) == d.level = "error" /\ Includes(d.message, "cannot be used together")

ConflictErrorsOf(sf) == SelectSeq(DiagnosticsOf(sf[1], sf[2]), IsConflictError)

\* C5 as claimed: a field whose literal contains both primaryKey and unique
\* gets two error-level conflict diagnostics, one per direction
C5_TwoConflictErrors ==
  pc = "validated" =>
    \A sf \in TaggedFields :
      LET entries == EntriesOf(FieldAt(sf).gormTag)
      IN  HasKey(entries, "primarykey") /\ HasKey(entries, "unique") =>
            /\ Len(ConflictErrorsOf(sf)) = 2
            /\ {d.message : d \in Range(ConflictErrorsOf(sf))} =
                 {"'primaryKey' and 'unique' cannot be used together",
                  "'unique' and 'primaryKey' cannot be used together"}

\* C5, amended: the error-level conflict diagnostics of a field are, in order,
\* one for each entry of one of the two keys that comes after an entry of the
\* other key, with the message of the direction of that entry (its own key
\* first) and that entry's key as errorTag, attributed to the field. A field
\* with both keys gets at least one, and exactly one when each key occurs once:
\* for primaryKey;unique the 'unique' and 'primaryKey' error alone.
C5_ConflictErrorPerLaterEntry ==
  pc = "validated" =>
    \A sf \in TaggedFields :
      LET field == FieldAt(sf)
          entries == EntriesOf(field.gormTag)
          Low(i) == ToLowerCase(entries[i].key)
          Other(k) == IF k = "primarykey" THEN "unique" ELSE "primarykey"
          Later(i) == /\ Low(i) \in {"primarykey", "unique"}
                      /\ \E h \in 1..(i - 1) : Low(h) = Other(Low(i))
          later == SelectSeq(Indices(Len(entries)), Later)
          Message(i) == IF Low(i) = "primarykey"
                          THEN "'primaryKey' and 'unique' cannot be used together"
                          ELSE "'unique' and 'primaryKey' cannot be used together"
      IN  /\ ConflictErrorsOf(sf) =
               [k \in 1..Len(later) |->
                  GormDiagnostic(structs[sf[1]].name, field.name, field.gormTag,
                                 Message(later[k]), "error", <<entries[later[k]].key>>)]
          /\ HasKey(entries, "primarykey") /\ HasKey(entries, "unique") => Len(later) >= 1

\* the literal primaryKey;unique has been validated and has its one error
C5_Witness ==
  /\ pc = "validated"
  /\ \E sf \in TaggedFields :
       /\ FieldAt(sf).gormTag = "primaryKey;unique"
       /\ Len(ConflictErrorsOf(sf)) = 1
       /\ ConflictErrorsOf(sf)[1].message = "'unique' and 'primaryKey' cannot be used together"

(***************************************************************************)
(* Struct-wide findings                                                    *)
(***************************************************************************)
\* field f of struct s has a column entry with the value v
CarriesColumn(s, f, v) ==
  \E e \in Range(EntriesOf(structs[s].fields[f].gormTag)) :
    ToLowerCase(e.key) = "column" /\ e.value = v

\* the non-empty column values of struct s
ColumnValuesOf(s) ==
  {e.value : e \in {e \in UNION {Range(EntriesOf(structs[s].fields[f].gormTag)) :
                                   f \in 1..Len(structs[s].fields)} :
                      ToLowerCase(e.key) = "column" /\ e.value # ""}}

DuplicateColumnMessage(v, owner) ==
  "Duplicate column name '" \o v \o "' already used by field '" \o owner
  \o "'. Each column name must be unique within the struct."

IsDuplicateColumnError(d, v) ==
  d.level = "error" /\ StartsWith(d.message, "Duplicate column name '" \o v \o "' already")

\* C3: for every struct and every non-empty column value that exactly two of
\* its fields carry, the struct has exactly one 'Duplicate column name' error
\* for that value; it is attributed to the later of the two fields and names
\* the earlier one.
C3_OneDuplicateColumnError ==
  pc = "validated" =>
    \A s \in 1..Len(structs) : \A v \in ColumnValuesOf(s) :
      LET carriers == {f \in 1..Len(structs[s].fields) : CarriesColumn(s, f, v)}
          IsMine(d) == IsDuplicateColumnError(d, v)
          errors == SelectSeq(DiagnosticsOfStruct(s), IsMine)
      IN  Cardinality(carriers) = 2 =>
            LET earlier == CHOOSE f \in carriers : \A g \in carriers : f <= g
                later == CHOOSE f \in carriers : \A g \in carriers : g <= f
            IN  /\ Len(errors) = 1
                /\ errors[1].fieldName = structs[s].fields[later].name
                /\ errors[1].message =
                     DuplicateColumnMessage(v, structs[s].fields[earlier].name)

\* the fields of struct s whose literal contains the primaryKey key
PrimaryKeyCarriers(s) ==
  {f \in 1..Len(structs[s].fields) :
     HasKey(EntriesOf(structs[s].fields[f].gormTag), "primarykey")}

IsMultiplePrimaryKeyError(d) ==
  d.level = "error" /\ StartsWith(d.message, "Multiple primary keys")

\* C4: for every struct, with N the number of its fields whose literal contains
\* the primaryKey key: if N > 1 the struct has exactly N 'Multiple primary
\* keys' errors, one attributed to each such field; if N <= 1 it has none.
C4_OneErrorPerPrimaryKeyField ==
  pc = "validated" =>
    \A s \in 1..Len(structs) :
      LET carriers == PrimaryKeyCarriers(s)
          errors == SelectSeq(DiagnosticsOfStruct(s), IsMultiplePrimaryKeyError)
      IN  IF Cardinality(carriers) > 1
            THEN /\ Len(errors) = Cardinality(carriers)
                 /\ \A f \in carriers :
                      Cardinality({k \in 1..Len(errors) :
                        errors[k].fieldName = structs[s].fields[f].name}) = 1
            ELSE errors = <<>>

(***************************************************************************)
(* Structs without tags                                                    *)
(***************************************************************************)
\* the text of the declaration of the struct called name, up to its closing line
StructTextOf(name) ==
  LET from == IndexOf(source, "type " \o name \o " struct")
      to == IndexOfFrom(source, "\n}", from)
  IN  Substring(source, from, to)

\* C7: when the run has returned, every diagnostic belongs to a struct whose
\* text carries a gorm literal; so a document in which no field carries one
\* (an empty or blank document, a document without struct, structs of
\* untagged fields) has no diagnostics, and a struct without tagged field
\* contributes none, whatever the other structs contain.
C7_NoTagsNoDiagnostics ==
  pc \in {"validated", "done"} =>
    /\ \A k \in 1..Len(diagnostics) :
         Includes(StructTextOf(diagnostics[k].structName), "gorm:")
    /\ ~Includes(source, "gorm:") => diagnostics = <<>>

\* a document of two structs has returned diagnostics, none of them for its
\* first struct, whose fields carry no gorm literal
C7_Witness ==
  /\ pc = "validated"
  /\ Len(structs) = 2
  /\ Len(structs[1].fields) = 2
  /\ ~Includes(StructTextOf(structs[1].name), "gorm:")
  /\ Includes(StructTextOf(structs[1].name), "json:")
  /\ diagnostics # <<>>

(***************************************************************************)
(* Repeated runs                                                           *)
(***************************************************************************)
\* C1: a run on a text returns the diagnostics every earlier run on the same
\* text returned, element by element and in the same order, whatever texts
\* were validated in between.
C1_SameTextSameDiagnostics ==
  pc \in {"validated", "done"} =>
    \A r \in results : r.source = source => r.diagnostics = diagnostics

\* the third run has returned, on the text of the first run, with diagnostics,
\* after a run on another text
C1_Witness ==
  /\ pc = "validated"
  /\ requests = 3
  /\ diagnostics # <<>>
  /\ Cardinality(results) = 2
  /\ [source |-> source, diagnostics |-> diagnostics] \in results

(***************************************************************************)
(* The documents with one struct whose one tagged field has the single     *)
(* entry size:V, for every V of up to MaxSizeLen of the characters         *)
(***************************************************************************)
MaxSizeLen == 2

SizeChars == {"a", "1", "-", "{", "}"}

RECURSIVE Concat(_, _)
Concat(chars, i) == IF i > Len(chars) THEN "" ELSE chars[i] \o Concat(chars, i + 1)

StringsUpTo(chars, n) == {Concat(cs, 1) : cs \in SeqsUpTo(chars, n)}

\* the size key as the documents write it, and the value V
SizeCases == [key : {"size", "Size"}, value : StringsUpTo(SizeChars, MaxSizeLen)]

SizeLiteral(c) == c.key \o ":" \o c.value

SizeDocument(c) ==
  StructText("User", UntaggedLine("ID") \o TaggedLine("A", SizeLiteral(c)))

InitSize == \E c \in SizeCases : StartRun(SizeDocument(c))

SpecSize == InitSize /\ [][Next]_vars

\* the run is over: validateGoFile has the list of validateGormTags, or has
\* returned without calling it
Validated == pc = "validated" \/ (pc = "done" /\ structs = <<>>)

\* C6: for the document of one struct whose only tagged field has the single
\* entry size:V, V not empty and not made of digits only, the list returned is
\* exactly one diagnostic: an error of that field, whose message reports the
\* invalid size value V and whose errorTag is the size key as written.
C6_OneInvalidSizeError ==
  \A c \in SizeCases :
    (Validated /\ source = SizeDocument(c) /\ ~IsDigits(c.value)) =>
      diagnostics =
        << GormDiagnostic("User", "A", SizeLiteral(c),
                          "Invalid size value '" \o c.value
                            \o "'. Size must be a positive integer.",
                          "error", <<c.key>>) >>

(***************************************************************************)
(* The documents with one struct whose one field has the single entry      *)
(* comment:V, for every V of up to MaxQuoteLen of the characters. The      *)
(* literal is written without quotes around it, so that V can hold both    *)
(* kinds of quote.                                                         *)
(***************************************************************************)
MaxQuoteLen == 4

QuoteChars == {"'", "\"", "\\", "a"}

QuoteValues == StringsUpTo(QuoteChars, MaxQuoteLen)

CommentLiteral(value) == "comment:" \o value

QuoteDocument(value) == StructText("User", BareTaggedLine("ID", CommentLiteral(value)))

InitQuote == \E value \in QuoteValues : StartRun(QuoteDocument(value))

SpecQuote == InitQuote /\ [][Next]_vars

KindOf(quote) == IF quote = "'" THEN "single" ELSE "double"

OtherQuote(quote) == IF quote = "'" THEN "\"" ELSE "'"

\* the quote characters of the value that no backslash precedes
Unescaped(value, quote) ==
  {i \in 1..Len(value) : Ch(value, i) = quote /\ (i = 1 \/ Ch(value, i - 1) # "\\")}

RECURSIVE Counts(_, _)
\* the character at i is a quote that no backslash precedes and that does not
\* lie in an open span of the other kind: the quotes of the other kind that
\* count before it are even in number
Counts(value, i) ==
  LET quote == Ch(value, i)
  IN  /\ quote \in {"'", "\""}
      /\ i \in Unescaped(value, quote)
      /\ Cardinality({j \in 1..(i - 1) :
                        Ch(value, j) = OtherQuote(quote) /\ Counts(value, j)}) % 2 = 0

Counted(value, quote) == {i \in Unescaped(value, quote) : Counts(value, i)}

UnmatchedMessage(quote, n) ==
  "Comment value has unmatched " \o KindOf(quote) \o " quotes. Found " \o ToString(n)
    \o " " \o KindOf(quote) \o " quotes, expected even number for proper closure."

IsUnmatchedError(d) ==
  d.level = "error" /\ StartsWith(d.message, "Comment value has unmatched")

UnmatchedErrors == SelectSeq(diagnostics, IsUnmatchedError)

UnmatchedError(value, quote, n) ==
  GormDiagnostic("User", "ID", CommentLiteral(value), UnmatchedMessage(quote, n),
                 "error", <<"comment">>)

MixedQuoteMessage ==
  "Comment value contains both single and double quotes. "
    \o "Consider using consistent quote style or proper escaping."

MixedQuoteWarning(value) ==
  GormDiagnostic("User", "ID", CommentLiteral(value), MixedQuoteMessage, "warning",
                 <<"comment">>)

\* both kinds of quote character occur in the value
HasBothKinds(value) == \A quote \in {"'", "\""} : quote \in CharsOf(value)

\* each kind is balanced: the quotes of the kind that count are even in number
Balanced(value) == \A quote \in {"'", "\""} : Cardinality(Counted(value, quote)) % 2 = 0

\* C9: a comment entry whose value holds both a single and a double quote,
\* each kind balanced as the quote scan counts it, gets exactly one diagnostic:
\* the mixed-quote-style warning, no error; a comment value that does not hold
\* both kinds of quote character gets no mixed-quote-style warning.
C9_MixedQuoteWarning ==
  \A value \in QuoteValues :
    (pc = "validated" /\ source = QuoteDocument(value)) =>
      /\ (HasBothKinds(value) /\ Balanced(value)) =>
           diagnostics = <<MixedQuoteWarning(value)>>
      /\ ~HasBothKinds(value) =>
           \A k \in 1..Len(diagnostics) : diagnostics[k].message # MixedQuoteMessage

\* the run on a value with two single and two double quotes, all of which
\* count, has returned the warning alone
C9_Witness ==
  /\ pc = "validated"
  /\ \E value \in QuoteValues :
       /\ source = QuoteDocument(value)
       /\ Cardinality(Counted(value, "'")) = 2
       /\ Cardinality(Counted(value, "\"")) = 2
       /\ diagnostics = <<MixedQuoteWarning(value)>>

(***************************************************************************)
(* The documents with one struct of up to MaxRangeFields fields of         *)
(* distinct names, one name a prefix of another, each on a line of its own *)
(***************************************************************************)
MaxRangeFields == 2

RangeFieldNames == {"ID", "IDCard", "Name"}

RangeLiterals == {"", "size:x", "Size:1;siz"}

RangeFields ==
  {fields \in SeqsUpTo(RangeFieldNames \X RangeLiterals, MaxRangeFields) :
     \A i, j \in 1..Len(fields) : i # j => fields[i][1] # fields[j][1]}

RECURSIVE RangeBody(_, _)
RangeBody(fields, i) ==
  IF i > Len(fields) THEN ""
  ELSE FieldLine(fields[i][1], fields[i][2]) \o RangeBody(fields, i + 1)

RangeDocument(fields) == StructText("User", RangeBody(fields, 1))

InitRange == \E fields \in RangeFields : StartRun(RangeDocument(fields))

SpecRange == InitRange /\ [][Next]_vars

\* the text a range on one line covers
TextOf(range) ==
  Substring(Split(source, "\n")[range.start.line + 1], range.start.character,
            range.end.character)

\* the first word of a line
FirstWord(line) ==
  LET trimmedLine == Trim(line)
  IN  SubSeq(trimmedLine, 1, SpanWhile(trimmedLine, 1, WordSet) - 1)

\* the lines of the text that declare a field of the name: its first word is
\* the name
DeclarationLines(fieldName) ==
  LET lines == Split(source, "\n")
  IN  {i \in 0..(Len(lines) - 1) : FirstWord(lines[i + 1]) = fieldName}

\* C10: for every finding presented whose struct is declared in the text,
\* whose field is declared on a line inside that struct and whose key occurs
\* verbatim in the gorm literal of that field, the range findFieldRange has
\* returned lies on the declaration line of the field and covers the key.
C10_RangeCoversKey ==
  pc = "done" =>
    \A k \in 1..Len(located) :
      LET d == diagnostics[k]
      IN  (/\ d.errorTag # <<>>
           /\ Includes(source, "type " \o d.structName \o " struct")
           /\ DeclarationLines(d.fieldName) # {}
           /\ Includes(d.tag, d.errorTag[1])) =>
            /\ located[k].start.line \in DeclarationLines(d.fieldName)
            /\ located[k].end.line = located[k].start.line
            /\ TextOf(located[k]) = d.errorTag[1]

(***************************************************************************)
(* findFieldRange called on its own: on the text of a document, for every  *)
(* struct name, field name and key of small sets. The name Order is not    *)
(* the name of a struct of the texts, the name Age not that of a field.    *)
(***************************************************************************)
LocateTexts == {RangeDocument(fields) : fields \in RangeFields} \cup {"", "package main\n"}

LocateStructNames == {"User", "Order"}

LocateFieldNames == {"ID", "Name", "Age"}

LocateKeys == {<<>>, <<"size">>}

InitLocate == \E text \in LocateTexts : Start(text, "locate", defaultSettings)

\* a caller calls findFieldRange(source, structName, fieldName, errorTag)
LocateField ==
  /\ pc = "locate"
  /\ \E structName \in LocateStructNames, fieldName \in LocateFieldNames, errorTag \in LocateKeys :
       /\ query' = [structName |-> structName, fieldName |-> fieldName, errorTag |-> errorTag]
       /\ located' = <<findFieldRange(source, structName, fieldName, errorTag)>>
  /\ pc' = "located"
  /\ UNCHANGED <<source, structs, si, fi, loc, hasGormTags, diagnostics, origin, items,
                 settings, requests, results, thrown>>

NextLocate == LocateField

SpecLocate == InitLocate /\ [][NextLocate]_vars

\* the lines of the text that hold the declaration of the struct
StructLines(structName) ==
  LET lines == Split(source, "\n")
  IN  {i \in 0..(Len(lines) - 1) : Includes(lines[i + 1], "type " \o structName \o " struct")}

\* C11: when the text has the declaration line of the struct and no line of it
\* declares a field of the given name, the range findFieldRange returns lies
\* on the declaration line of the struct and covers the struct name.
C11_UnknownFieldStructName ==
  (/\ pc = "located"
   /\ StructLines(query.structName) # {}
   /\ DeclarationLines(query.fieldName) = {}) =>
     /\ located[1].start.line \in StructLines(query.structName)
     /\ located[1].end.line = located[1].start.line
     /\ TextOf(located[1]) = query.structName

\* C16 as stated: when no line of the text holds the declaration of the
\* struct, the range returned starts and ends at line 0, character 0
C16_ZeroWidthAtDocumentStart ==
  (pc = "located" /\ StructLines(query.structName) = {}) =>
    located[1] = [start |-> Position(0, 0), end |-> Position(0, 0)]

\* C16: when no line of the text holds the declaration of the struct,
\* findFieldRange returns the range of the first character of the document:
\* from line 0, character 0 to line 0, character 1, whatever the text, the
\* field name and the key are.
C16_FirstCharacterOfDocument ==
  (pc = "located" /\ StructLines(query.structName) = {}) =>
    located[1] = [start |-> Position(0, 0), end |-> Position(0, 1)]

\* findFieldRange has returned for a struct that a text with another struct
\* does not declare, and for the empty text
C16_Witness ==
  /\ pc = "located"
  /\ query.structName = "Order"
  /\ Includes(source, "type User struct") \/ source = ""
  /\ located = <<[start |-> Position(0, 0), end |-> Position(0, 1)]>>

(***************************************************************************)
(* The documents with one struct of up to MaxCapFields fields, each with   *)
(* up to three unknown keys, validated under every setting of              *)
(* maxNumberOfProblems from -1 to MaxCap and under settings without it     *)
(***************************************************************************)
MaxCap == 3

MaxCapFields == 2

Caps == (-1)..MaxCap

\* the settings of a user who has set the trace level only
NoCapSettings == [trace |-> "off"]

CapSettings == {[maxNumberOfProblems |-> cap] : cap \in Caps} \cup {NoCapSettings}

CapLiterals == {"column:a", "x1", "x1;x2", "x1;x2;x3"}

CapDocuments == {DocumentText(<<literals>>, 1) : literals \in SeqsUpTo(CapLiterals, MaxCapFields)}

InitCap == \E text \in CapDocuments, config \in CapSettings : Start(text, "parse", config)

SpecCap == InitCap /\ [][Next]_vars

Configured == "maxNumberOfProblems" \in DOMAIN settings

\* C12: when validateGoFile has returned, with n the number of diagnostics
\* validateGormTags returned: under a configured cap it presents at most cap
\* diagnostics, namely the first min(cap, n) of the list in their order (none
\* for a cap below 1); without a configured cap the first min(1000, n).
C12_CapTruncatesFromFront ==
  pc = "done" =>
    LET n == Len(diagnostics)
        cap == IF Configured THEN Max(settings.maxNumberOfProblems, 0)
               ELSE defaultMaxNumberOfProblems
    IN  /\ Len(items) = Min(cap, n)
        /\ \A k \in 1..Min(Len(items), n) :
             /\ items[k].message = diagnostics[k].message
             /\ items[k].code = "gorm-" \o diagnostics[k].level

(***************************************************************************)
(* The documents with one struct of one field, whose literal is every      *)
(* sequence of up to MaxKeyEntries entries with keys of every class of     *)
(* isValidGormKey, written with and without value                          *)
(***************************************************************************)
MaxKeyEntries == 2

KeyEntries ==
  {"size:1", "Size:x", "foreignKey:x", "bogus", "Bogus:1", "primary_key", "foreign_key:x",
   "auto_create_time", "AUTO_UPDATE_TIME", "association_foreignkey:x",
   "association_save_reference", "joinColumn"}

KeyLiterals == {Join(entries, ";") : entries \in SeqsUpTo(KeyEntries, MaxKeyEntries)}

KeyDocuments == {DocumentText(<< <<literal>> >>, 1) : literal \in KeyLiterals}

InitKeys == \E text \in KeyDocuments : StartRun(text)

SpecKeys == InitKeys /\ [][Next]_vars

\* the keys of the lists of isValidGormKey
Vocabulary ==
  generalTags \cup indexConstraintTags \cup timeTags \cup precisionTags \cup permissionTags
  \cup serializerTags \cup indexOptions \cup relationTags \cup deprecatedAssociationTags
  \cup deprecatedTags

\* the relationship-class keys and the keys of the two lists of deprecated keys
Discouraged == relationTags \cup deprecatedTags \cup deprecatedAssociationTags

IsUnknownTagError(d) == d.level = "error" /\ StartsWith(d.message, "Unknown GORM tag '")

IsNotRecommendedWarning(d) ==
  /\ d.level = "warning"
  /\ StartsWith(d.message, "GORM tag '")
  /\ Includes(d.message, "' is deprecated or not recommended.")

IsClassification(d) == IsUnknownTagError(d) \/ IsNotRecommendedWarning(d)

\* the outcome of the classification check, as level and key
Outcome(d) == [level |-> d.level, key |-> d.errorTag]

\* C13: the classification diagnostics of every tagged field are, in entry
\* order, for each entry: one 'Unknown GORM tag' error when its lower-cased
\* key is in no list of the vocabulary, one 'deprecated or not recommended'
\* warning when it is a relationship-class or deprecated key, none when it
\* is a recommended key; whatever the value and the other entries are.
C13_ClassificationByKey ==
  pc = "validated" =>
    \A sf \in TaggedFields :
      LET entries == EntriesOf(FieldAt(sf).gormTag)
          Low(i) == ToLowerCase(entries[i].key)
          Finds(i) == Low(i) \notin Vocabulary \/ Low(i) \in Discouraged
          finds == SelectSeq(Indices(Len(entries)), Finds)
          Level(i) == IF Low(i) \notin Vocabulary THEN "error" ELSE "warning"
          reported == SelectSeq(DiagnosticsOf(sf[1], sf[2]), IsClassification)
      IN  [k \in 1..Len(reported) |-> Outcome(reported[k])] =
            [k \in 1..Len(finds) |->
               [level |-> Level(finds[k]), key |-> <<entries[finds[k]].key>>]]

\* the tags the tags reference lists as deprecated, with warnings generated
DocumentedDeprecated ==
  {"primary_key", "foreign_key", "auto_create_time", "auto_update_time",
   "association_foreignkey", "association_save_reference"}

\* C14: every entry of a tagged field whose key is one of the tags the tags
\* reference lists as deprecated has a warning-level classification
\* diagnostic and no 'Unknown GORM tag' error.
C14_DeprecatedTagsWarn ==
  pc = "validated" =>
    \A sf \in TaggedFields :
      \A e \in Range(EntriesOf(FieldAt(sf).gormTag)) :
        ToLowerCase(e.key) \in DocumentedDeprecated =>
          /\ \E d \in Range(DiagnosticsOf(sf[1], sf[2])) :
               IsNotRecommendedWarning(d) /\ d.errorTag = <<e.key>>
          /\ \A d \in Range(DiagnosticsOf(sf[1], sf[2])) :
               IsUnknownTagError(d) => d.errorTag # <<e.key>>

(***************************************************************************)
(* The documents of up to MaxOrderStructs structs whose fields have        *)
(* findings of the field loop and of the struct-wide checks                *)
(***************************************************************************)
MaxOrderStructs == 2

OrderBodies ==
  {<<"primaryKey;index:i;bogus", "x1;primaryKey;index:i;x2">>,
   <<"column:a", "size:x;column:a;x1">>,
   <<"size:x;x1">>,
   <<"", "x1;uniqueIndex:i;Index:i">>}

OrderDocuments == {DocumentText(bodies, 1) : bodies \in SeqsUpTo(OrderBodies, MaxOrderStructs)}

InitOrder == \E text \in OrderDocuments : StartRun(text)

SpecOrder == InitOrder /\ [][Next]_vars

\* the place of the struct of a diagnostic among the structs, of its field
\* among the fields of the struct, and the places of the entries of the field
\* that have its key as written
StructPlace(d) == CHOOSE s \in 1..Len(structs) : structs[s].name = d.structName

FieldPlace(d) ==
  CHOOSE f \in 1..Len(structs[StructPlace(d)].fields) :
    structs[StructPlace(d)].fields[f].name = d.fieldName

EntryPlaces(d) ==
  LET entries == EntriesOf(d.tag)
  IN  {i \in 1..Len(entries) : <<entries[i].key>> = d.errorTag}

IsSharedIndexWarning(d) ==
  /\ d.level = "warning"
  /\ StartsWith(d.message, "Index '")
  /\ Includes(d.message, "' is used by multiple fields: ")

IsDuplicateColumnNameError(d) ==
  d.level = "error" /\ StartsWith(d.message, "Duplicate column name '")

\* the diagnostics of the checks made after the loop over the fields
AfterFields(d) == IsMultiplePrimaryKeyError(d) \/ IsSharedIndexWarning(d)

\* the order of two diagnostics of the list, the first before the second,
\* when wide tells which diagnostics are struct-wide
InOrder(a, b, wideA, wideB) ==
  /\ StructPlace(a) <= StructPlace(b)
  /\ StructPlace(a) = StructPlace(b) =>
       /\ wideA => wideB
       /\ (~wideA /\ ~wideB) => FieldPlace(a) <= FieldPlace(b)
       /\ (~wideA /\ ~wideB /\ FieldPlace(a) = FieldPlace(b)) =>
            \E p \in EntryPlaces(a), q \in EntryPlaces(b) : p <= q

\* C15 as stated: the diagnostics of an earlier struct precede those of a
\* later one; in a struct the field-local ones are in field order and, in a
\* field, in entry order; the duplicate column name, multiple primary keys
\* and shared index name diagnostics of a struct come after all its
\* field-local diagnostics
C15_ColumnErrorsAfterFieldLocal ==
  pc = "validated" =>
    \A i, j \in 1..Len(diagnostics) :
      i < j => InOrder(diagnostics[i], diagnostics[j],
                       AfterFields(diagnostics[i]) \/ IsDuplicateColumnNameError(diagnostics[i]),
                       AfterFields(diagnostics[j]) \/ IsDuplicateColumnNameError(diagnostics[j]))

\* C15: the diagnostics of an earlier struct precede those of a later one; in
\* a struct the diagnostics of the field loop, the duplicate column name
\* errors among them, are in field order and, in a field, in entry order (a
\* duplicate column name error at the place of its column entry); the
\* multiple primary keys and shared index name diagnostics of the struct come
\* after all diagnostics of its field loop.
C15_EmissionOrder ==
  pc = "validated" =>
    \A i, j \in 1..Len(diagnostics) :
      i < j => InOrder(diagnostics[i], diagnostics[j],
                       AfterFields(diagnostics[i]), AfterFields(diagnostics[j]))

\* a run on two structs has returned: the first struct has diagnostics of the
\* checks after the fields, the second a duplicate column name error on its
\* second field followed by a diagnostic of a later entry of that field
C15_Witness ==
  /\ pc = "validated"
  /\ Len(structs) = 2
  /\ \E i, j, k \in 1..Len(diagnostics) :
       /\ i < j /\ j < k
       /\ StructPlace(diagnostics[i]) = 1 /\ AfterFields(diagnostics[i])
       /\ StructPlace(diagnostics[j]) = 2 /\ IsDuplicateColumnNameError(diagnostics[j])
       /\ StructPlace(diagnostics[k]) = 2 /\ IsUnknownTagError(diagnostics[k])
       /\ FieldPlace(diagnostics[k]) = 2

(***************************************************************************)
(* The documents with one struct of one field with a single entry: a       *)
(* numeric key, written as a flag or followed by a colon and every value   *)
(* of up to MaxNumericLen of the characters                                *)
(***************************************************************************)
MaxNumericLen == 2

NumericChars == {"0", "7", "a", "-"}

NumericKeysAsWritten == {"size", "Precision", "scale", "autoIncrementIncrement", "length", "PRIORITY"}

\* the entries: the key alone, and the key with each value
NumericEntries ==
  NumericKeysAsWritten
  \cup {key \o ":" \o value : key \in NumericKeysAsWritten, value \in StringsUpTo(NumericChars, MaxNumericLen)}
  \cup {key \o ":" : key \in NumericKeysAsWritten}

NumericDocuments == {DocumentText(<< <<entry>> >>, 1) : entry \in NumericEntries}

InitNumeric == \E text \in NumericDocuments : StartRun(text)

SpecNumeric == InitNumeric /\ [][Next]_vars

numericKeys == {"size", "precision", "scale", "autoincrementincrement", "length", "priority"}

\* the error of validateTagValue for a numeric key
IsNumericError(d) ==
  /\ d.level = "error"
  /\ StartsWith(d.message, "Invalid ")
  /\ Includes(d.message, " value '")
  /\ Includes(d.message, "ust be a positive integer.")

\* C17: for every entry with a numeric key, the field has the error of
\* validateTagValue for that key iff the value of the entry is not a
\* non-empty string of decimal digits; so a numeric key written as a flag or
\* with an empty value has the error.
C17_NumericValueRequired ==
  pc = "validated" =>
    \A sf \in TaggedFields :
      LET entries == EntriesOf(FieldAt(sf).gormTag)
          Wrong(i) == /\ ToLowerCase(entries[i].key) \in numericKeys
                      /\ ~(entries[i].value # "" /\ IsDigits(entries[i].value))
          wrong == SelectSeq(Indices(Len(entries)), Wrong)
          reported == SelectSeq(DiagnosticsOf(sf[1], sf[2]), IsNumericError)
      IN  [k \in 1..Len(reported) |-> reported[k].errorTag] =
            [k \in 1..Len(wrong) |-> <<entries[wrong[k]].key>>]

(***************************************************************************)
(* The documents with one struct of one field, whose literal is every      *)
(* sequence of up to MaxComboEntries of the entries of the time tracking   *)
(* and the foreign key pairs                                               *)
(***************************************************************************)
MaxComboEntries == 3

ComboEntries ==
  {"autoCreateTime", "autoUpdateTime", "AutoUpdateTime:nano", "foreignKey:x", "references:y",
   "References"}

ComboLiterals == {Join(entries, ";") : entries \in SeqsUpTo(ComboEntries, MaxComboEntries)}

ComboDocuments == {DocumentText(<< <<literal>> >>, 1) : literal \in ComboLiterals}

InitCombo == \E text \in ComboDocuments : StartRun(text)

SpecCombo == InitCombo /\ [][Next]_vars

TimeTrackingMessage ==
  "Field has both creation and update time tracking. Ensure this is intentional."

\* C18: every tagged field whose literal contains both autoCreateTime and
\* autoUpdateTime, in either order, has the time tracking reminder at warning
\* level, attributed to it, and no error with that message.
C18_TimeTrackingReminder ==
  pc = "validated" =>
    \A sf \in TaggedFields :
      LET entries == EntriesOf(FieldAt(sf).gormTag)
          reminders == {d \in Range(DiagnosticsOf(sf[1], sf[2])) :
                          d.message = TimeTrackingMessage}
      IN  HasKey(entries, "autocreatetime") /\ HasKey(entries, "autoupdatetime") =>
            /\ reminders # {}
            /\ \A d \in reminders : d.level = "warning" /\ d.fieldName = FieldAt(sf).name

ForeignKeyPairMessage ==
  "'foreignKey' should be used together with 'references' for proper relationship definition."

\* C20: a tagged field has the warning that foreignKey should be used
\* together with references only if its literal contains a foreignKey key
\* and no references key; a field with both keys, in either order, has none.
C20_ForeignKeyWithoutReferences ==
  pc = "validated" =>
    \A sf \in TaggedFields :
      LET entries == EntriesOf(FieldAt(sf).gormTag)
      IN  (\E d \in Range(DiagnosticsOf(sf[1], sf[2])) : d.message = ForeignKeyPairMessage) =>
            HasKey(entries, "foreignkey") /\ ~HasKey(entries, "references")

(***************************************************************************)
(* The documents with one struct of up to MaxIndexFields fields with index *)
(* and uniqueIndex entries                                                 *)
(***************************************************************************)
MaxIndexFields == 2

IndexLiterals ==
  {"", "index:i", "uniqueIndex:i", "index:i;uniqueIndex:i", "index:j", "index", "Index:i;index:j"}

IndexDocuments ==
  {DocumentText(<<literals>>, 1) : literals \in SeqsUpTo(IndexLiterals, MaxIndexFields)}

InitIndex == \E text \in IndexDocuments : StartRun(text)

SpecIndex == InitIndex /\ [][Next]_vars

\* field f of struct s declares the index name v
DeclaresIndex(s, f, v) ==
  \E e \in Range(EntriesOf(structs[s].fields[f].gormTag)) :
    ToLowerCase(e.key) \in {"index", "uniqueindex"} /\ e.value = v

\* the index names of struct s: the non-empty values of its index and
\* uniqueIndex entries
IndexNamesOf(s) ==
  {e.value : e \in {e \in UNION {Range(EntriesOf(structs[s].fields[f].gormTag)) :
                                   f \in 1..Len(structs[s].fields)} :
                      ToLowerCase(e.key) \in {"index", "uniqueindex"} /\ e.value # ""}}

IsSharedIndexWarningFor(d, v) ==
  d.level = "warning" /\ StartsWith(d.message, "Index '" \o v \o "' is used by multiple fields: ")

\* C19: for every struct and every index name V of it: if more than one field
\* declares V, each of these fields has a shared-index warning for V; if
\* exactly one field declares V, the struct has no shared-index warning for V.
C19_SharedIndexWarnings ==
  pc = "validated" =>
    \A s \in 1..Len(structs) : \A v \in IndexNamesOf(s) :
      LET declarers == {f \in 1..Len(structs[s].fields) : DeclaresIndex(s, f, v)}
          IsMine(d) == IsSharedIndexWarningFor(d, v)
          warnings == SelectSeq(DiagnosticsOfStruct(s), IsMine)
      IN  IF Cardinality(declarers) > 1
            THEN \A f \in declarers :
                   \E k \in 1..Len(warnings) : warnings[k].fieldName = structs[s].fields[f].name
            ELSE warnings = <<>>

(***************************************************************************)
(* The documents with one struct of one field, whose literal is every      *)
(* sequence of up to MaxPairEntries entries of one group of entries of the *)
(* combination checks that do not test the current key                     *)
(***************************************************************************)
MaxPairEntries == 3

\* the entries, in groups: a literal is made of the entries of one group
PairGroups ==
  {{"-", "<-", "->:false"}, {"Index", "uniqueIndex:i", ""},
   {"many2many:t", "foreignKey:x", "references:y"}, {"embedded", "Column:a", "-"}}

PairLiterals ==
  UNION {{Join(entries, ";") : entries \in SeqsUpTo(group, MaxPairEntries)} : group \in PairGroups}

PairDocuments == {DocumentText(<< <<literal>> >>, 1) : literal \in PairLiterals}

InitPairs == \E text \in PairDocuments : StartRun(text)

SpecPairs == InitPairs /\ [][Next]_vars

\* the lower-cased keys of the first i entries
KeysUpTo(entries, i) == {ToLowerCase(entries[h].key) : h \in 1..i}

IsIgnoreError(d) ==
  /\ d.level = "error"
  /\ StartsWith(d.message, "Field marked as ignored ('-') cannot have other tags: ")

\* C21: every tagged field whose literal contains the key - and another key,
\* in whatever order, has an ignore-conflict error, and the last of these
\* errors lists every other key of the literal (lower-cased); a field whose
\* only key is - has no ignore-conflict error.
C21_IgnoreFlagConflict ==
  pc = "validated" =>
    \A sf \in TaggedFields :
      LET entries == EntriesOf(FieldAt(sf).gormTag)
          keys == KeysUpTo(entries, Len(entries))
          errors == SelectSeq(DiagnosticsOf(sf[1], sf[2]), IsIgnoreError)
      IN  IF "-" \in keys /\ keys # {"-"}
            THEN /\ errors # <<>>
                 /\ \A d \in Range(errors) : d.fieldName = FieldAt(sf).name
                 /\ \A k \in keys \ {"-"} :
                      \/ Includes(errors[Len(errors)].message, ": " \o k \o ", ")
                      \/ Includes(errors[Len(errors)].message, ", " \o k \o ", ")
                      \/ Includes(errors[Len(errors)].message, ", " \o k \o ". Remove")
                      \/ Includes(errors[Len(errors)].message, ": " \o k \o ". Remove")
            ELSE errors = <<>>

\* a field with the key - between two other keys has been validated and has
\* its two ignore-conflict errors
C21_Witness ==
  /\ pc = "validated"
  /\ \E sf \in TaggedFields :
       /\ FieldAt(sf).gormTag = "Column:a;-;embedded"
       /\ Len(SelectSeq(DiagnosticsOf(sf[1], sf[2]), IsIgnoreError)) = 2


(***************************************************************************)
(* findFieldRange called on the texts of two structs, User and then Order, *)
(* each with up to MaxScopeFields tagged fields and written in one of      *)
(* three layouts: the closing brace on a line of its own, the whole struct *)
(* on one line, the closing brace followed by a comment                    *)
(***************************************************************************)
MaxScopeFields == 1

ScopeFieldNames == {"ID", "Name"}

ScopeLayouts == {"block", "line", "comment"}

ScopeFields == {<<>>} \cup SeqsUpTo(ScopeFieldNames, MaxScopeFields)

ScopeField(name) == name \o " string " \o Backtick \o "gorm:\"size:x\"" \o Backtick

ScopeStruct(name, fields, layout) ==
  LET decls == [i \in 1..Len(fields) |-> ScopeField(fields[i])]
      lines == [i \in 1..Len(fields) |-> "\t" \o decls[i] \o "\n"]
  IN  IF layout = "line"
        THEN "type " \o name \o " struct { " \o Join(decls, "; ") \o " }\n"
        ELSE "type " \o name \o " struct {\n" \o Join(lines, "")
             \o (IF layout = "comment" THEN "} // " \o name \o "\n" ELSE "}\n")

ScopeTexts ==
  {ScopeStruct("User", f1, l1) \o "\n" \o ScopeStruct("Order", f2, l2) :
     <<f1, l1, f2, l2>> \in ScopeFields \X ScopeLayouts \X ScopeFields \X ScopeLayouts}

InitScope == \E text \in ScopeTexts : Start(text, "locate", defaultSettings)

SpecScope == InitScope /\ [][NextLocate]_vars

\* the line of the closing brace of the struct: the first line from its
\* declaration line on that holds a closing brace (no literal holds one)
ClosingLine(structName) ==
  LET lines == Split(source, "\n")
      from == MinOf(StructLines(structName), 0)
  IN  MinOf({i \in from..(Len(lines) - 1) : Includes(lines[i + 1], "}")}, Len(lines))

\* C22: whenever the text declares the struct, the range findFieldRange
\* returns lies between the declaration line of that struct and the line of
\* its closing brace, so it is never on a line after the closing brace and
\* never on the line of a field of a later struct.
C22_RangeWithinStruct ==
  (pc = "located" /\ StructLines(query.structName) # {}) =>
    /\ located[1].start.line >= MinOf(StructLines(query.structName), 0)
    /\ located[1].start.line <= ClosingLine(query.structName)
    /\ located[1].end.line = located[1].start.line


(***************************************************************************)
(* The documents of one struct User of up to MaxShapeFields tagged fields, *)
(* declared with one blank, two blanks or a tabulation after the keyword   *)
(* type, at the start of the text or after an empty line                   *)
(***************************************************************************)
MaxShapeFields == 2

ShapeLiterals == {"x1", ":x", "primaryKey", "column:a", "Size:1;size:2"}

ShapeHeads == {"type User struct", "type  User struct", "type\tUser struct"}

ShapePrefixes == {"", "\n"}

ShapeDocuments ==
  {prefix \o head \o " {\n" \o StructBody(literals, 1) \o "}\n" :
     <<prefix, head, literals>> \in
       ShapePrefixes \X ShapeHeads \X SeqsUpTo(ShapeLiterals, MaxShapeFields)}

InitShape == \E text \in ShapeDocuments : StartRun(text)

SpecShape == InitShape /\ [][Next]_vars

\* C23: every range attached to a presented diagnostic has non-negative
\* lines and characters, starts and ends on one line that the document has,
\* and ends strictly after its start.
C23_WellFormedRanges ==
  pc = "done" =>
    \A k \in 1..Len(items) :
      LET range == items[k].range
      IN  /\ range.start.line >= 0 /\ range.start.character >= 0
          /\ range.end.line = range.start.line
          /\ range.start.line < Len(Split(source, "\n"))
          /\ range.end.character > range.start.character

\* the diagnostics of a struct that findFieldRange does not find, declared
\* with two blanks after an empty line, have been presented
C23_Witness ==
  /\ pc = "done"
  /\ StartsWith(source, "\ntype  User struct")
  /\ Len(items) >= 2
  /\ items[1].range = [start |-> Position(0, 0), end |-> Position(0, 1)]


(***************************************************************************)
(* The documents with one struct of one field whose literal is every       *)
(* sequence of up to MaxCaseEntries entries of one group; each entry is    *)
(* there in two letter cases of its key, the values are the same. A        *)
(* document that has been validated is requested once more, with the keys  *)
(* of its literal in other letter cases.                                   *)
(***************************************************************************)
MaxCaseEntries == 2

CaseGroups ==
  {{"primaryKey", "PRIMARYKEY", "unique", "Unique"},
   {"column:a", "Column:a", "x1", "X1"},
   {"index:i", "INDEX:i", "foreign_key:x", "FOREIGN_KEY:x"},
   {"embedded", "Embedded", "column:a", "COLUMN:a"}}

CaseLiterals ==
  UNION {{Join(entries, ";") : entries \in SeqsUpTo(group, MaxCaseEntries)} : group \in CaseGroups}

CaseDocuments == {DocumentText(<< <<literal>> >>, 1) : literal \in CaseLiterals}

InitCase == \E text \in CaseDocuments : StartRun(text)

\* the documents with their letters lowered
CaseFold == [text \in CaseDocuments |-> ToLowerCase(text)]

\* the texts that differ from the text in the letter case of keys only (the
\* names and the values of the documents are the same in all of them)
Recasings(text) ==
  {other \in CaseDocuments : other # text /\ CaseFold[other] = CaseFold[text]}

\* connection.languages.diagnostics.on: the request that follows the first
\* run, for the document with its keys in other letter cases
RecaseRequest ==
  /\ pc = "done"
  /\ results = {}
  /\ requests' = requests + 1
  /\ results' = {[source |-> source, diagnostics |-> diagnostics]}
  /\ \E text \in Recasings(source) : source' = text
  /\ pc' = "parse"
  /\ UNCHANGED <<structs, si, fi, loc, hasGormTags, diagnostics, origin, presented, settings,
                 query, thrown>>

NextCase == Next \/ RecaseRequest

SpecCase == InitCase /\ [][NextCase]_vars

\* what of a diagnostic does not depend on the letter case of the keys: the
\* level, the struct, the field, and the message and the offending key once
\* their letters are lowered
FoldCase(d) ==
  [level |-> d.level, structName |-> d.structName, fieldName |-> d.fieldName,
   message |-> ToLowerCase(d.message),
   errorTag |-> IF d.errorTag = <<>> THEN <<>> ELSE <<ToLowerCase(d.errorTag[1])>>]

FoldAll(diags) == [k \in 1..Len(diags) |-> FoldCase(diags[k])]

\* C24: the diagnostics of a literal and those of the same literal with keys
\* in other letter cases are as many, in the same order, with the same
\* levels, structs and fields; their messages and offending keys differ in
\* the letter case of the keys only.
C24_KeyCaseDoesNotMatter ==
  pc \in {"validated", "done"} =>
    \A r \in results :
      CaseFold[r.source] = CaseFold[source] =>
        FoldAll(r.diagnostics) = FoldAll(diagnostics)

\* a literal of two entries has been validated after the same literal with
\* keys in other letter cases, and the diagnostics quote the keys as written
C24_Witness ==
  /\ pc = "validated"
  /\ requests = 2
  /\ Len(diagnostics) >= 2
  /\ \E r \in results :
       /\ r.source # source
       /\ CaseFold[r.source] = CaseFold[source]
       /\ Len(r.diagnostics) = Len(diagnostics)
       /\ \A k \in 1..Len(diagnostics) : r.diagnostics[k].message # diagnostics[k].message


(***************************************************************************)
(* The documents with one struct of one field whose literal is every       *)
(* sequence of up to MaxSplitEntries of the entries: keys no list has and  *)
(* the key size with values that are not digits, written with and without  *)
(* colon, blanks and further colons, and the empty and the blank entry     *)
(***************************************************************************)
MaxSplitEntries == 2

SplitEntries ==
  {"x1", " x2 ", "x3:v", ":x4", "x5:", "size: a b ", "size:a:b", "Size :q", "", " "}

SplitLiterals == {Join(entries, ";") : entries \in SeqsUpTo(SplitEntries, MaxSplitEntries)}

SplitDocuments == {DocumentText(<< <<literal>> >>, 1) : literal \in SplitLiterals}

InitSplit == \E text \in SplitDocuments : StartRun(text)

SpecSplit == InitSplit /\ [][Next]_vars

\* the key/value pair of an entry, in the words of the claim
PairOf(entry) ==
  LET e == Trim(entry)
      colon == MinOf({p \in 1..Len(e) : Ch(e, p) = ":"}, 0)
  IN  IF colon > 1
        THEN [key |-> Trim(SubSeq(e, 1, colon - 1)), value |-> Trim(SubSeq(e, colon + 1, Len(e)))]
        ELSE [key |-> e, value |-> ""]

IsInvalidSizeError(d) == d.level = "error" /\ StartsWith(d.message, "Invalid size value '")

\* the diagnostic that shows the key, or the key size and its value, of an entry
ShowsPair(d) == IsUnknownTagError(d) \/ IsInvalidSizeError(d)

\* the diagnostic d shows the pair
Shows(d, pair) ==
  IF ToLowerCase(pair.key) = "size"
    THEN /\ d.message = "Invalid size value '" \o pair.value
                          \o "'. Size must be a positive integer."
         /\ d.errorTag = <<pair.key>>
    ELSE /\ d.message = "Unknown GORM tag '" \o pair.key
                          \o "'. Check GORM documentation for valid tags."
         /\ d.errorTag = <<pair.key>>

\* C25: the diagnostics that show the pairs of a field are, in textual order,
\* one for each entry of the literal that is not empty after trimming, with
\* the key and the value of that entry: split at the first colon when it is
\* not the first character, else the whole entry as key with empty value.
C25_EntrySplitting ==
  pc = "validated" =>
    \A sf \in AllFields :
      LET raw == Split(FieldAt(sf).gormTag, ";")
          Kept(entry) == Trim(entry) # ""
          kept == SelectSeq(raw, Kept)
          shown == SelectSeq(DiagnosticsOf(sf[1], sf[2]), ShowsPair)
      IN  /\ Len(shown) = Len(kept)
          /\ \A i \in 1..Len(kept) : Shows(shown[i], PairOf(kept[i]))

\* a literal with a colon as first character of an entry, after a blank
\* entry, has been validated
C25_Witness ==
  /\ pc = "validated"
  /\ \E sf \in AllFields : FieldAt(sf).gormTag = " ;:x4"
  /\ Len(diagnostics) = 1
  /\ diagnostics[1].errorTag = <<":x4">>


(***************************************************************************)
(* parseGormTag called on its own: on every text of up to MaxTagPieces of  *)
(* the pieces, the keyword, the two quotes, a letter, a blank and a        *)
(* semicolon                                                               *)
(***************************************************************************)
MaxTagPieces == 4

TagPieces == {"gorm:", "\"", "'", "a", " ", ";"}

TagTexts == {""} \cup {Join(pieces, "") : pieces \in SeqsUpTo(TagPieces, MaxTagPieces)}

InitTag == \E tags \in TagTexts : Start(tags, "decode", defaultSettings)

\* parseFields calls parseGormTag(tags)
DecodeTag ==
  /\ pc = "decode"
  /\ query' = [tags |-> source, gormTag |-> parseGormTag(source)]
  /\ pc' = "decoded"
  /\ UNCHANGED <<source, structs, si, fi, loc, hasGormTags, diagnostics, origin, presented,
                 settings, requests, results, thrown>>

NextTag == DecodeTag

SpecTag == InitTag /\ [][NextTag]_vars

\* the 1-based positions of tags at which lit occurs
Occurrences(tags, lit) == {p \in 1..Len(tags) : LitAt(tags, p, lit)}

\* the content of the first segment written gorm:q...q, as <<content>>
QuotedContent(tags, q) ==
  LET Closes(p) == {c \in (p + 6)..Len(tags) : Ch(tags, c) = q}
      opens == {p \in Occurrences(tags, "gorm:" \o q) : Closes(p) # {}}
      first == MinOf(opens, 0)
  IN  IF opens = {} THEN <<>> ELSE <<SubSeq(tags, first + 6, MinOf(Closes(first), 0) - 1)>>

\* the first token that follows the keyword and ends at white space, at a
\* semicolon or at the end of the text, as <<token>>
BareToken(tags) ==
  LET Stops(p) == {c \in p..Len(tags) : Ch(tags, c) \in SpaceSet \cup {";"}}
      starts == {p \in Occurrences(tags, "gorm:") :
                   p + 5 <= Len(tags) /\ Ch(tags, p + 5) \notin SpaceSet \cup {";"}}
      first == MinOf(starts, 0)
  IN  IF starts = {} THEN <<>>
      ELSE <<SubSeq(tags, first + 5, MinOf(Stops(first + 5), Len(tags) + 1) - 1)>>

\* the content of the gorm segment, in the words of the claim
Decoded(tags) ==
  IF QuotedContent(tags, "\"") # <<>> THEN QuotedContent(tags, "\"")[1]
  ELSE IF QuotedContent(tags, "'") # <<>> THEN QuotedContent(tags, "'")[1]
  ELSE IF BareToken(tags) # <<>> THEN BareToken(tags)[1]
  ELSE ""

\* what is returned is the text from the quote that opens a gorm segment on
IncludesDelimiter(tags, gormTag) ==
  \E q \in {"\"", "'"} : \E p \in Occurrences(tags, "gorm:" \o q) :
    gormTag # "" /\ LitAt(tags, p + 5, gormTag)

\* C26: parseGormTag returns the content of the double-quoted gorm segment,
\* else that of the single-quoted one, else the bare token after the
\* keyword, else the empty string; the empty string for a text without the
\* keyword; and never a text that starts with the quote that opens a segment.
C26_TagDecoding ==
  pc = "decoded" =>
    /\ query.gormTag = Decoded(query.tags)
    /\ (Occurrences(query.tags, "gorm:") = {} => query.gormTag = "")
    /\ ~IncludesDelimiter(query.tags, query.gormTag)


(***************************************************************************)
(* The documents with one struct of one field whose literal is one entry   *)
(* of an enum-valued key: the key alone, or the key with a value in lower, *)
(* upper or mixed case, a value of no set, or no value, between up to      *)
(* MaxEnumBlanks blanks                                                    *)
(***************************************************************************)
MaxEnumBlanks == 1

EnumKeys == {"sort", "serializer", "<-", "->", "autoCreateTime", "autoUpdateTime", "-"}

EnumValues ==
  {"", "asc", "DESC", "json", "Gob", "unixtime", "create", "Update", "false", "FALSE", "nano",
   "Milli", "all", "Migration", "ascending", "x"}

RECURSIVE Blanks(_)
Blanks(n) == IF n = 0 THEN "" ELSE " " \o Blanks(n - 1)

EnumLiterals ==
  EnumKeys \cup {key \o ":" \o Blanks(n) \o value \o Blanks(n) :
                   <<key, value, n>> \in EnumKeys \X EnumValues \X (0..MaxEnumBlanks)}

EnumDocuments == {DocumentText(<< <<literal>> >>, 1) : literal \in EnumLiterals}

InitEnum == \E text \in EnumDocuments : StartRun(text)

SpecEnum == InitEnum /\ [][Next]_vars

\* the values of the key as written, as the claim lists them
EnumSet(key) ==
  CASE key = "sort" -> {"asc", "desc"}
    [] key = "serializer" -> {"json", "gob", "unixtime"}
    [] key = "<-" -> {"create", "update", "false"}
    [] key = "->" -> {"false"}
    [] key \in {"autoCreateTime", "autoUpdateTime"} -> {"nano", "milli"}
    [] key = "-" -> {"all", "migration"}

\* the letters of a string, each in lower case
Letters(s) == [i \in 1..Len(s) |-> LowerChar(Ch(s, i))]

IsMember(value, set) == \E member \in set : Letters(member) = Letters(value)

EnumMessageStarts ==
  {"Invalid sort value '", "Invalid serializer '", "Invalid write permission '",
   "Invalid read permission '", "Invalid time precision '", "Invalid ignore option '"}

IsEnumError(d) == d.level = "error" /\ \E start \in EnumMessageStarts : StartsWith(d.message, start)

\* C27: the field of an entry with an enum-valued key has one error of
\* validateTagValue that quotes the value when the value is not empty and
\* is not, ignoring letter case, in the set of the key; it has none when the
\* value is in the set, is empty or is absent.
C27_EnumValues ==
  pc = "validated" =>
    \A sf \in TaggedFields :
      LET entry == EntriesOf(FieldAt(sf).gormTag)[1]
          reported == SelectSeq(DiagnosticsOf(sf[1], sf[2]), IsEnumError)
      IN  IF entry.value # "" /\ ~IsMember(entry.value, EnumSet(entry.key))
            THEN /\ Len(reported) = 1
                 /\ Includes(reported[1].message, " '" \o entry.value \o "'. Valid option")
                 /\ reported[1].errorTag = <<entry.key>>
            ELSE reported = <<>>

\* the entry sort with a value of the set of another key has been validated
\* and has its error
C27_Witness ==
  /\ pc = "validated"
  /\ \E sf \in TaggedFields : FieldAt(sf).gormTag = "sort:json"
  /\ Len(diagnostics) = 1
  /\ IsEnumError(diagnostics[1])


(***************************************************************************)
(* Exceptions in the try block of the field loop. Nothing the block calls  *)
(* throws on a string, so an exception is one the runtime raises (a        *)
(* RangeError when the call stack is exhausted): it is raised after any    *)
(* number of entries of the field, at most MaxFaults times in a run. The   *)
(* documents have a struct of up to MaxFaultFields tagged fields, alone or *)
(* followed by a second struct.                                            *)
(***************************************************************************)
MaxFaults == 1

MaxFaultFields == 2

FaultLiterals == {"x1", "primaryKey;x2"}

FaultDocuments ==
  {DocumentText(<<body>>, 1) : body \in SeqsUpTo(FaultLiterals, MaxFaultFields)}
  \cup {DocumentText(<<body, <<"x1">> >>, 1) : body \in SeqsUpTo(FaultLiterals, MaxFaultFields)}

ErrorMessages == {"Maximum call stack size exceeded"}

InitFault == \E text \in FaultDocuments : StartRun(text)

\* mutant of CatchError: the exception is caught and nothing is pushed
CatchErrorSilently(out, structName, field, message) == out

\* the catch block of the field loop
CatchError(out, structName, field, message) ==
  Append(out, GormDiagnostic(structName, field.name, field.gormTag,
                             "Error parsing GORM tags: " \o message, "error", <<>>))

\* one iteration of the loop over struct.fields in which the try block throws
\* after the first entries of the field have been processed
FailNextField ==
  /\ pc = "field"
  /\ fi <= Len(structs[si].fields)
  /\ ~HasNoGormTag(structs[si].fields[fi])
  /\ Len(thrown) < MaxFaults
  /\ \E message \in ErrorMessages :
       \E after \in 0..Len(TagParts(structs[si].fields[fi].gormTag)) :
         LET field == structs[si].fields[fi]
             r == ValidateParts([loc EXCEPT !.keys = <<>>], diagnostics, structs[si].name, field,
                                SubSeq(TagParts(field.gormTag), 1, after), 1)
             out == CatchError(r.out, structs[si].name, field, message)
         IN  /\ hasGormTags' = TRUE
             /\ loc' = r.loc
             /\ diagnostics' = out
             /\ origin' = origin \o Origins(Len(out) - Len(diagnostics), si, fi)
             /\ thrown' = Append(thrown, [struct |-> si, field |-> fi, after |-> after,
                                          diagnostics |-> diagnostics])
  /\ fi' = fi + 1
  /\ UNCHANGED <<source, pc, structs, si, presented, settings, requests, results, query>>

NextFault == Next \/ FailNextField

SpecFault == InitFault /\ [][NextFault]_vars

IsParsingError(d) == StartsWith(d.message, "Error parsing GORM tags")

Failed(sf) == \E k \in 1..Len(thrown) : thrown[k].struct = sf[1] /\ thrown[k].field = sf[2]

\* the number of entries of the literal whose key no list has
UnknownKeys(gormTag) ==
  LET entries == EntriesOf(gormTag)
  IN  Cardinality({i \in 1..Len(entries) : ToLowerCase(entries[i].key) \notin Vocabulary})

\* C28: validateGormTags returns although an exception was raised in the try
\* block of a field, and then: the diagnostics that were there when it was
\* raised are the first of the list, unchanged; the field has exactly one
\* 'Error parsing GORM tags' diagnostic, its last, at error level, with the
\* names of the struct and the field and without offending key; and every
\* other tagged field, of the same and of the later structs, has been
\* processed: it has the 'Unknown GORM tag' error of each of its unknown keys
\* and no 'Error parsing GORM tags' diagnostic.
C28_FailureIsolation ==
  pc = "validated" =>
    \A sf \in TaggedFields :
      LET mine == DiagnosticsOf(sf[1], sf[2])
          caught == SelectSeq(mine, IsParsingError)
      IN  IF Failed(sf)
            THEN /\ Len(caught) = 1
                 /\ mine[Len(mine)] = caught[1]
                 /\ caught[1].level = "error"
                 /\ caught[1].structName = structs[sf[1]].name
                 /\ caught[1].fieldName = FieldAt(sf).name
                 /\ caught[1].errorTag = <<>>
                 /\ \A k \in 1..Len(thrown) :
                      SubSeq(diagnostics, 1, Len(thrown[k].diagnostics)) = thrown[k].diagnostics
            ELSE /\ caught = <<>>
                 /\ Len(SelectSeq(mine, IsUnknownTagError)) = UnknownKeys(FieldAt(sf).gormTag)

\* validateGormTags has returned after an exception in the first field of
\* the first struct, raised after the first of its two entries, and the
\* second field and the second struct have their diagnostics
C28_Witness ==
  /\ pc = "validated"
  /\ Len(thrown) = 1
  /\ thrown[1].struct = 1 /\ thrown[1].field = 1 /\ thrown[1].after = 1
  /\ Len(structs) = 2
  /\ Len(structs[1].fields) = 2
  /\ DiagnosticsOf(1, 2) # <<>>
  /\ DiagnosticsOf(2, 1) # <<>>


(***************************************************************************)
(* The combination checks that do not test the current key, on the         *)
(* documents of SpecPairs                                                  *)
(***************************************************************************)
NotBlank(entry) == Trim(entry) # ""

\* the entries of a literal that are not blank, as key/value pairs
PairsOf(gormTag) ==
  LET kept == SelectSeq(Split(gormTag, ";"), NotBlank)
  IN  [k \in 1..Len(kept) |-> PairOf(kept[k])]

Conditions == {"ignore", "permission", "index", "many2many", "embedded"}

\* the condition holds of the set of keys
HoldsOf(condition, keys) ==
  CASE condition = "ignore" -> "-" \in keys /\ Cardinality(keys) > 1
    [] condition = "permission" -> Cardinality(keys \cap {"<-", "->", "-"}) > 1
    [] condition = "index" -> {"index", "uniqueindex"} \subseteq keys
    [] condition = "many2many" ->
         "many2many" \in keys /\ keys \cap {"foreignkey", "references"} # {}
    [] condition = "embedded" -> {"embedded", "column"} \subseteq keys

\* how the message of the diagnostic of the condition starts
StartOf(condition) ==
  CASE condition = "ignore" -> "Field marked as ignored ('-') cannot have other tags: "
    [] condition = "permission" -> "Conflicting permission tags: "
    [] condition = "index" -> "Field has both 'index' and 'uniqueIndex'."
    [] condition = "many2many" -> "'many2many' cannot be used with 'foreignKey' or 'references'."
    [] condition = "embedded" -> "'embedded' fields expand into multiple columns"

\* the number of diagnostics of the condition among diags
CountOf(condition, diags) ==
  Cardinality({k \in 1..Len(diags) : StartsWith(diags[k].message, StartOf(condition))})

\* C29: for a literal of n entries and each of the five conditions, the
\* field has n - i + 1 diagnostics of the condition when i is the first
\* entry at which the condition holds of the keys seen so far, and none
\* when it holds at no entry.
C29_RepeatedCombinationFindings ==
  pc = "validated" =>
    \A sf \in TaggedFields : \A condition \in Conditions :
      LET entries == PairsOf(FieldAt(sf).gormTag)
          n == Len(entries)
          holds == {i \in 1..n : HoldsOf(condition, KeysUpTo(entries, i))}
      IN  CountOf(condition, DiagnosticsOf(sf[1], sf[2])) =
            IF holds = {} THEN 0 ELSE n - MinOf(holds, 0) + 1

\* a literal of three entries whose keys index and uniqueIndex are both
\* there from the second entry on has been validated and has two diagnostics
\* of that condition
C29_Witness ==
  /\ pc = "validated"
  /\ \E sf \in TaggedFields :
       /\ FieldAt(sf).gormTag = "Index;uniqueIndex:i;Index"
       /\ CountOf("index", DiagnosticsOf(sf[1], sf[2])) = 2


(***************************************************************************)
(* The documents of two structs, User and Order, each of up to             *)
(* MaxAloneFields fields that carry a column value and an index name, or   *)
(* the key primaryKey. A document that has been validated is requested     *)
(* once more with one of its two structs only.                             *)
(***************************************************************************)
MaxAloneFields == 2

AloneLiterals == {"column:a;index:i", "primaryKey"}

AloneBodies == SeqsUpTo(AloneLiterals, MaxAloneFields)

AloneDocuments == {DocumentText(<<b1, b2>>, 1) : <<b1, b2>> \in AloneBodies \X AloneBodies}

InitAlone == \E text \in AloneDocuments : StartRun(text)

\* the 0-based index at which the second struct of the text starts
SecondStruct(text) == IndexOf(text, "}\n\n") + 3

\* connection.languages.diagnostics.on: the request that follows the first
\* run, for the text of the first or of the second struct of the document
AloneRequest ==
  /\ pc = "done"
  /\ results = {}
  /\ requests' = requests + 1
  /\ results' = {[source |-> source, diagnostics |-> diagnostics]}
  /\ \/ source' = Substring(source, 0, SecondStruct(source))
     \/ source' = SubstringFrom(source, SecondStruct(source))
  /\ pc' = "parse"
  /\ UNCHANGED <<structs, si, fi, loc, hasGormTags, diagnostics, origin, presented, settings,
                 query, thrown>>

NextAlone == Next \/ AloneRequest

SpecAlone == InitAlone /\ [][NextAlone]_vars

\* on its own the struct has at most one field with primaryKey, and none of
\* its column values and index names is carried by two of its fields
Unshared(s) ==
  LET fields == 1..Len(structs[s].fields)
  IN  /\ Cardinality(PrimaryKeyCarriers(s)) <= 1
      /\ \A v \in ColumnValuesOf(s) : Cardinality({f \in fields : CarriesColumn(s, f, v)}) <= 1
      /\ \A v \in IndexNamesOf(s) : Cardinality({f \in fields : DeclaresIndex(s, f, v)}) <= 1

IsStructScoped(d) ==
  IsDuplicateColumnNameError(d) \/ IsMultiplePrimaryKeyError(d) \/ IsSharedIndexWarning(d)

\* C30: a struct that on its own shares no column value, no primaryKey and
\* no index name among its fields has no duplicate-column, multiple-primary-
\* key or shared-index diagnostic, whatever the other struct of the document
\* carries; and the diagnostics of a struct validated alone are those the run
\* on the document of the two structs returned for it.
C30_PerStructIsolation ==
  pc = "validated" =>
    /\ \A s \in 1..Len(structs) :
         Unshared(s) => SelectSeq(DiagnosticsOfStruct(s), IsStructScoped) = <<>>
    /\ \A r \in results :
         LET OfStruct(d) == d.structName = structs[1].name
         IN  SelectSeq(r.diagnostics, OfStruct) = diagnostics

\* the struct Order has been validated alone and has no diagnostic, after
\* the document in which the struct User before it carries the same column
\* value, twice, and has its diagnostics
C30_Witness ==
  /\ pc = "validated"
  /\ StartsWith(source, "type Order struct")
  /\ Includes(source, "column:a")
  /\ diagnostics = <<>>
  /\ \E r \in results :
       \E k \in 1..Len(r.diagnostics) :
         r.diagnostics[k].structName = "User" /\ IsDuplicateColumnNameError(r.diagnostics[k])
=============================================================================
